---- MODULE Spec2Model ----
(***************************************************************************)
(* Model of the subtitle markup generator of ai-subtitle-creator:          *)
(* auto_subtitle/effects.py (colour codec, word-timing estimator, chunker, *)
(* time formatting) and auto_subtitle/subtitle_renderer.py (the document   *)
(* renderer).                                                              *)
(*                                                                         *)
(* Python floats are IEEE-754 binary64.  They are modelled exactly: a      *)
(* float is a sign, a 53-bit mantissa and an exponent, every arithmetic    *)
(* operation is the exact result rounded to nearest, ties to even.  The    *)
(* mantissa does not fit TLC's integers, so natural numbers are little-    *)
(* endian sequences of 15-bit limbs.  The exponent range is not modelled   *)
(* (no overflow, no subnormals): the inputs stay far away from both.       *)
(***************************************************************************)
EXTENDS Integers, Sequences, FiniteSets, TLC

(***************************************************************************)
(* Natural numbers as limb sequences                                       *)
(***************************************************************************)
Base == 2 ^ 15

Limb(a, j) == IF j >= 1 /\ j <= Len(a) THEN a[j] ELSE 0

Rest(a) == IF a = << >> THEN << >> ELSE Tail(a)

RECURSIVE BTrim(_)
BTrim(a) ==
    IF a = << >> THEN << >>
    ELSE IF a[Len(a)] = 0 THEN BTrim(SubSeq(a, 1, Len(a) - 1))
    ELSE a

RECURSIVE BFromInt(_)
BFromInt(n) == IF n = 0 THEN << >> ELSE <<n % Base>> \o BFromInt(n \div Base)

RECURSIVE BToInt(_)
BToInt(a) == IF a = << >> THEN 0 ELSE Head(a) + Base * BToInt(Tail(a))

RECURSIVE BAddC(_, _, _)
BAddC(a, b, c) ==
    IF a = << >> /\ b = << >> THEN (IF c = 0 THEN << >> ELSE <<c>>)
    ELSE LET x == Limb(a, 1) + Limb(b, 1) + c
         IN  <<x % Base>> \o BAddC(Rest(a), Rest(b), x \div Base)

BAdd(a, b) == BAddC(a, b, 0)

RECURSIVE BSubC(_, _, _)
BSubC(a, b, c) ==
    IF a = << >> THEN << >>
    ELSE LET x == a[1] - Limb(b, 1) - c
         IN  <<(x + Base) % Base>> \o BSubC(Tail(a), Rest(b), IF x < 0 THEN 1 ELSE 0)

\* a - b for a >= b
BSub(a, b) == BTrim(BSubC(a, b, 0))

RECURSIVE BCmpFrom(_, _, _)
BCmpFrom(a, b, j) ==
    IF j = 0 THEN 0
    ELSE IF a[j] > b[j] THEN 1
    ELSE IF a[j] < b[j] THEN -1
    ELSE BCmpFrom(a, b, j - 1)

\* -1, 0 or 1 as a < b, a = b, a > b
BCmp(a, b) ==
    IF Len(a) > Len(b) THEN 1
    ELSE IF Len(a) < Len(b) THEN -1
    ELSE BCmpFrom(a, b, Len(a))

RECURSIVE BMulSmallC(_, _, _)
BMulSmallC(a, c, carry) ==
    IF a = << >> THEN (IF carry = 0 THEN << >> ELSE <<carry>>)
    ELSE LET x == a[1] * c + carry
         IN  <<x % Base>> \o BMulSmallC(Tail(a), c, x \div Base)

\* a * c for 0 <= c < Base
BMulSmall(a, c) == IF c = 0 THEN << >> ELSE BMulSmallC(a, c, 0)

RECURSIVE BMul(_, _)
BMul(a, b) ==
    IF b = << >> \/ a = << >> THEN << >>
    ELSE LET hi == BMul(a, Tail(b))
         IN  BAdd(BMulSmall(a, Head(b)), IF hi = << >> THEN << >> ELSE <<0>> \o hi)

RECURSIVE BDivSmallU(_, _)
BDivSmallU(a, d) ==
    IF a = << >> THEN [q |-> << >>, r |-> 0]
    ELSE LET hi == BDivSmallU(Tail(a), d)
             x  == hi.r * Base + Head(a)
         IN  [q |-> <<x \div d>> \o hi.q, r |-> x % d]

\* quotient and remainder of a by d, 0 < d < Base
BDivSmall(a, d) == LET u == BDivSmallU(a, d) IN [q |-> BTrim(u.q), r |-> u.r]

RECURSIVE IntBitLen(_)
IntBitLen(n) == IF n = 0 THEN 0 ELSE 1 + IntBitLen(n \div 2)

BBitLen(a) == IF a = << >> THEN 0 ELSE (Len(a) - 1) * 15 + IntBitLen(a[Len(a)])

\* a * 2^k
BShl(a, k) ==
    IF a = << >> THEN << >>
    ELSE LET r == k % 15
             n == Len(a)
             y == [j \in 1..(n + 1) |->
                     ((Limb(a, j) * (2 ^ r)) % Base) + (Limb(a, j - 1) \div (2 ^ (15 - r)))]
         IN  BTrim([j \in 1..(k \div 15) |-> 0] \o y)

\* floor(a / 2^k)
BShr(a, k) ==
    LET q == k \div 15
        r == k % 15
    IN  IF q >= Len(a) THEN << >>
        ELSE LET x == SubSeq(a, q + 1, Len(a))
             IN  BTrim([j \in 1..Len(x) |->
                         (x[j] \div (2 ^ r)) + ((Limb(x, j + 1) % (2 ^ r)) * (2 ^ (15 - r)))])

\* a mod 2^k
BLow(a, k) ==
    LET q == k \div 15
        r == k % 15
    IN  IF q >= Len(a) THEN a
        ELSE BTrim(SubSeq(a, 1, q) \o <<a[q + 1] % (2 ^ r)>>)

BOdd(a) == a # << >> /\ a[1] % 2 = 1

(***************************************************************************)
(* Dyadic rationals (-1)^neg * m * 2^e, exact arithmetic                   *)
(***************************************************************************)
Dy(neg, m, e) == IF m = << >> THEN [neg |-> FALSE, m |-> << >>, e |-> 0]
                 ELSE [neg |-> neg, m |-> m, e |-> e]

DZero == Dy(FALSE, << >>, 0)

DNeg(a) == Dy(~a.neg, a.m, a.e)

DAbs(a) == Dy(FALSE, a.m, a.e)

DAdd(a, b) ==
    IF a.m = << >> THEN b
    ELSE IF b.m = << >> THEN a
    ELSE LET e  == IF a.e < b.e THEN a.e ELSE b.e
             ma == BShl(a.m, a.e - e)
             mb == BShl(b.m, b.e - e)
         IN  IF a.neg = b.neg THEN Dy(a.neg, BAdd(ma, mb), e)
             ELSE IF BCmp(ma, mb) >= 0 THEN Dy(a.neg, BSub(ma, mb), e)
             ELSE Dy(b.neg, BSub(mb, ma), e)

DSub(a, b) == DAdd(a, DNeg(b))

DMul(a, b) == Dy(a.neg # b.neg, BMul(a.m, b.m), a.e + b.e)

DLeq(a, b) == LET d == DSub(a, b) IN d.m = << >> \/ d.neg

DLess(a, b) == LET d == DSub(a, b) IN d.m # << >> /\ d.neg

DMax(a, b) == IF DLeq(a, b) THEN b ELSE a

DFromInt(n) == IF n < 0 THEN Dy(TRUE, BFromInt(-n), 0) ELSE Dy(FALSE, BFromInt(n), 0)

(***************************************************************************)
(* Python float: binary64, round to nearest, ties to even.  A float is a   *)
(* dyadic whose mantissa has exactly Precision bits, or zero.              *)
(***************************************************************************)
Precision == 53

\* m * 2^e, plus a positive amount below one unit of m when sticky, rounded
Round(neg, m, e, sticky) ==
    LET n == BBitLen(m)
    IN  IF n <= Precision THEN Dy(neg, BShl(m, Precision - n), e - (Precision - n))
        ELSE LET k    == n - Precision
                 q    == BShr(m, k)
                 c    == BCmp(BLow(m, k), BShl(<<1>>, k - 1))
                 up   == c > 0 \/ (c = 0 /\ (sticky \/ BOdd(q)))
                 q1   == IF up THEN BAdd(q, <<1>>) ELSE q
             IN  IF BBitLen(q1) > Precision THEN Dy(neg, BShr(q1, 1), e + k + 1)
                 ELSE Dy(neg, q1, e + k)

RoundD(d) == Round(d.neg, d.m, d.e, FALSE)

\* float(n)
FromInt(n) == RoundD(DFromInt(n))

FAdd(a, b) == RoundD(DAdd(a, b))

FSub(a, b) == RoundD(DSub(a, b))

FMul(a, b) == RoundD(DMul(a, b))

\* p / q for Python ints 0 <= p, 0 < q < Base (true division, correctly rounded)
IntTrueDiv(p, q) ==
    LET d == BDivSmall(BShl(BFromInt(p), 75), q)
    IN  Round(FALSE, d.q, -75, d.r # 0)

\* a / d for a float a and an int 0 < d < Base
FDivInt(a, d) ==
    LET x == BDivSmall(BShl(a.m, 30), d)
    IN  Round(a.neg, x.q, a.e - 30, x.r # 0)

FLeq(a, b) == DLeq(a, b)

FLess(a, b) == DLess(a, b)

\* floor(|a|) as a natural number
IntPart(a) == IF a.e >= 0 THEN BShl(a.m, a.e) ELSE BShr(a.m, -a.e)

\* int(a): truncation toward zero
Trunc(a) == IF a.neg THEN -BToInt(IntPart(a)) ELSE BToInt(IntPart(a))

\* a % 1 for a >= 0 (exact)
FracPart(a) == IF a.e >= 0 THEN DZero ELSE Round(FALSE, BLow(a.m, -a.e), a.e, FALSE)

\* a // n for a >= 0 and an int 0 < n < Base, as an int
FloorDivInt(a, n) == BToInt(BDivSmall(IntPart(a), n).q)

\* a % n for a >= 0 and an int 0 < n < Base (exact, as fmod)
FModInt(a, n) == FAdd(FromInt(BDivSmall(IntPart(a), n).r), FracPart(a))

\* the decimal literal n/10^k as the parser reads it (0 <= n, 10^k < Base)
Dec(n, den) == IntTrueDiv(n, den)

(***************************************************************************)
(* Strings are sequences of one-character strings.                         *)
(***************************************************************************)
Chars(n, c) == [j \in 1..n |-> c]

Whitespace == {" ", "\t", "\n"}

RECURSIVE LStripSet(_, _)
LStripSet(s, cs) == IF s # << >> /\ Head(s) \in cs THEN LStripSet(Tail(s), cs) ELSE s

RECURSIVE RStripSet(_, _)
RStripSet(s, cs) ==
    IF s # << >> /\ s[Len(s)] \in cs THEN RStripSet(SubSeq(s, 1, Len(s) - 1), cs) ELSE s

\* str.strip()
Strip(s) == RStripSet(LStripSet(s, Whitespace), Whitespace)

\* str.split(): the maximal runs of non-whitespace characters
RECURSIVE SplitLoop(_, _, _)
SplitLoop(s, cur, acc) ==
    IF s = << >> THEN (IF cur = << >> THEN acc ELSE Append(acc, cur))
    ELSE IF Head(s) \in Whitespace
         THEN SplitLoop(Tail(s), << >>, IF cur = << >> THEN acc ELSE Append(acc, cur))
    ELSE SplitLoop(Tail(s), Append(cur, Head(s)), acc)

Split(s) == SplitLoop(s, << >>, << >>)

DigitChars == <<"0", "1", "2", "3", "4", "5", "6", "7", "8", "9">>

UpperHex == DigitChars \o <<"A", "B", "C", "D", "E", "F">>

LowerHex == DigitChars \o <<"a", "b", "c", "d", "e", "f">>

\* str(n) for n >= 0
RECURSIVE IntToChars(_)
IntToChars(n) ==
    IF n < 10 THEN <<DigitChars[n + 1]>> ELSE Append(IntToChars(n \div 10), DigitChars[(n % 10) + 1])

\* f"{n:02d}" for n >= 0
Pad2(n) == IF n < 10 THEN <<"0">> \o IntToChars(n) ELSE IntToChars(n)

\* f"{n:02X}" for n >= 0
RECURSIVE IntToHex(_)
IntToHex(n) ==
    IF n < 16 THEN <<UpperHex[n + 1]>> ELSE Append(IntToHex(n \div 16), UpperHex[(n % 16) + 1])

Hex2(n) == IF n < 16 THEN <<"0">> \o IntToHex(n) ELSE IntToHex(n)

\* the value of one hex digit, -1 for any other character
HexVal(c) ==
    IF \E j \in 1..16 : UpperHex[j] = c THEN (CHOOSE j \in 1..16 : UpperHex[j] = c) - 1
    ELSE IF \E j \in 1..16 : LowerHex[j] = c THEN (CHOOSE j \in 1..16 : LowerHex[j] = c) - 1
    ELSE -1

\* int(s, 16) of a two-character slice made of hex digits; -1 where int() raises ValueError
IntHex2(s) ==
    IF Len(s) = 2 /\ HexVal(s[1]) >= 0 /\ HexVal(s[2]) >= 0 THEN 16 * HexVal(s[1]) + HexVal(s[2])
    ELSE -1

(***************************************************************************)
(* effects.py                                                              *)
(***************************************************************************)
\* A raised ValueError: in place of a string, and in place of a record
ColorError == <<"ValueError">>

ValueError == [raised |-> "ValueError"]

RaisedColor(c) == c = ColorError

Raised(r) == "raised" \in DOMAIN r

\* hex_to_ass_color, but the alpha byte copied instead of inverted
hex_to_ass_color_alpha_copied(hex_color) ==
    LET h == LStripSet(hex_color, {"#"})
        r == IntHex2(SubSeq(h, 1, 2))
        g == IntHex2(SubSeq(h, 3, 4))
        b == IntHex2(SubSeq(h, 5, 6))
        a == IF Len(h) = 6 THEN 0 ELSE IntHex2(SubSeq(h, 7, 8))
    IN  IF Len(h) \notin {6, 8} THEN ColorError
        ELSE IF r < 0 \/ g < 0 \/ b < 0 \/ (Len(h) = 8 /\ a < 0) THEN ColorError
        ELSE <<"&", "H">> \o Hex2(a) \o Hex2(b) \o Hex2(g) \o Hex2(r)

\* effects.py: hex_to_ass_color.  The token &HAABBGGRR, or the ValueError raised.
hex_to_ass_color(hex_color) ==
    LET h == LStripSet(hex_color, {"#"})
        r == IntHex2(SubSeq(h, 1, 2))
        g == IntHex2(SubSeq(h, 3, 4))
        b == IntHex2(SubSeq(h, 5, 6))
        a == IF Len(h) = 6 THEN 0 ELSE 255 - IntHex2(SubSeq(h, 7, 8))
    IN  IF Len(h) \notin {6, 8} THEN ColorError
        ELSE IF r < 0 \/ g < 0 \/ b < 0 \/ (Len(h) = 8 /\ IntHex2(SubSeq(h, 7, 8)) < 0) THEN ColorError
        ELSE <<"&", "H">> \o Hex2(a) \o Hex2(b) \o Hex2(g) \o Hex2(r)

\* chunk_loop, but a chunk closed only once it is longer than max_words
RECURSIVE chunk_loop_late(_, _, _, _)
chunk_loop_late(words, max_words, chunks, current_chunk) ==
    IF words = << >>
    THEN (IF current_chunk # << >> THEN Append(chunks, current_chunk) ELSE chunks)
    ELSE LET c == Append(current_chunk, Head(words))
         IN  IF Len(c) > max_words
             THEN chunk_loop_late(Tail(words), max_words, Append(chunks, c), << >>)
             ELSE chunk_loop_late(Tail(words), max_words, chunks, c)

\* effects.py: chunk_words, the loop with its two accumulators
RECURSIVE chunk_loop(_, _, _, _)
chunk_loop(words, max_words, chunks, current_chunk) ==
    IF words = << >>
    THEN (IF current_chunk # << >> THEN Append(chunks, current_chunk) ELSE chunks)
    ELSE LET c == Append(current_chunk, Head(words))
         IN  IF Len(c) >= max_words
             THEN chunk_loop(Tail(words), max_words, Append(chunks, c), << >>)
             ELSE chunk_loop(Tail(words), max_words, chunks, c)

chunk_words(words, max_words) == chunk_loop(words, max_words, << >>, << >>)

\* effects.py: format_time_ass, for seconds >= 0
format_time_ass(seconds) ==
    LET hours        == FloorDivInt(seconds, 3600)
        minutes      == FloorDivInt(FModInt(seconds, 3600), 60)
        secs         == Trunc(FModInt(seconds, 60))
        centiseconds == Trunc(FMul(FModInt(seconds, 1), FromInt(100)))
    IN  IntToChars(hours) \o <<":">> \o Pad2(minutes) \o <<":">> \o Pad2(secs)
            \o <<".">> \o Pad2(centiseconds)

\* word_duration, but always the equal split
word_duration_equal_split(word, total_chars, segment_duration, nwords) ==
    FDivInt(segment_duration, nwords)

\* effects.py line 246: the duration estimated for one word
word_duration(word, total_chars, segment_duration, nwords) ==
    IF total_chars > 0 THEN FMul(IntTrueDiv(Len(word), total_chars), segment_duration)
    ELSE FDivInt(segment_duration, nwords)

\* SumLen, but the separators counted too, as len(text) does
RECURSIVE SumLenOfText(_)
SumLenOfText(words) ==
    IF words = << >> THEN 0
    ELSE IF Len(words) = 1 THEN Len(Head(words))
    ELSE Len(Head(words)) + 1 + SumLenOfText(Tail(words))

\* effects.py line 239: total_chars
RECURSIVE SumLen(_)
SumLen(words) == IF words = << >> THEN 0 ELSE Len(Head(words)) + SumLen(Tail(words))

\* estimate_loop, but current_time never advanced
RECURSIVE estimate_loop_no_advance(_, _, _, _, _)
estimate_loop_no_advance(words, k, current_time, total_chars, segment_duration) ==
    IF k > Len(words) THEN << >>
    ELSE LET d == word_duration(words[k], total_chars, segment_duration, Len(words))
         IN  <<[word |-> words[k], start |-> current_time, end |-> FAdd(current_time, d)]>>
                 \o estimate_loop_no_advance(words, k + 1, current_time, total_chars,
                                             segment_duration)

\* effects.py lines 244-254: the estimation loop from word k on
RECURSIVE estimate_loop(_, _, _, _, _)
estimate_loop(words, k, current_time, total_chars, segment_duration) ==
    IF k > Len(words) THEN << >>
    ELSE LET d == word_duration(words[k], total_chars, segment_duration, Len(words))
         IN  <<[word |-> words[k], start |-> current_time, end |-> FAdd(current_time, d)]>>
                 \o estimate_loop(words, k + 1, FAdd(current_time, d), total_chars, segment_duration)

\* supplied_timings, but the word copied without the strip()
RECURSIVE supplied_timings_unstripped(_)
supplied_timings_unstripped(ws) ==
    IF ws = << >> THEN << >>
    ELSE IF Strip(Head(ws).word) # << >>
         THEN <<[word |-> Head(ws).word, start |-> Head(ws).start, end |-> Head(ws).end]>>
                  \o supplied_timings_unstripped(Tail(ws))
    ELSE supplied_timings_unstripped(Tail(ws))

\* effects.py lines 217-225: the supplied word timestamps, entries with a blank word dropped
RECURSIVE supplied_timings(_)
supplied_timings(ws) ==
    IF ws = << >> THEN << >>
    ELSE IF Strip(Head(ws).word) # << >>
         THEN <<[word |-> Strip(Head(ws).word), start |-> Head(ws).start, end |-> Head(ws).end]>>
                  \o supplied_timings(Tail(ws))
    ELSE supplied_timings(Tail(ws))

\* effects.py: calculate_word_timings.  A segment is a record (a dict); the
\* key "words" may be absent.
calculate_word_timings(segment) ==
    IF "words" \in DOMAIN segment THEN supplied_timings(segment.words)
    ELSE LET words == Split(Strip(segment.text))
         IN  IF words = << >> THEN << >>
             ELSE estimate_loop(words, 1, segment.start, SumLen(words),
                                FSub(segment.end, segment.start))

\* get_alignment_code, but "custom" placed at the top row
get_alignment_code_custom_top(position, align) ==
    LET pos_base  == CASE position = "bottom" -> 1
                       [] position = "center" -> 4
                       [] position = "top"    -> 7
                       [] position = "custom" -> 7
                       [] OTHER               -> 1
        align_off == CASE align = "left"   -> 0
                       [] align = "center" -> 1
                       [] align = "right"  -> 2
                       [] OTHER            -> 1
    IN  pos_base + align_off

\* effects.py: get_alignment_code
get_alignment_code(position, align) ==
    LET pos_base  == CASE position = "bottom" -> 1
                       [] position = "center" -> 4
                       [] position = "top"    -> 7
                       [] position = "custom" -> 1
                       [] OTHER               -> 1
        align_off == CASE align = "left"   -> 0
                       [] align = "center" -> 1
                       [] align = "right"  -> 2
                       [] OTHER            -> 1
    IN  pos_base + align_off

(***************************************************************************)
(* Override tags.  A markup fragment (a Python string of tags) is a        *)
(* sequence of tags, the empty string the empty sequence; a tag has a      *)
(* name, integer arguments, a colour token and, for \t, the tags it        *)
(* animates to.                                                            *)
(***************************************************************************)
Tag(name, args) == [name |-> name, args |-> args, color |-> << >>, body |-> << >>]

TagC(name, color) == [name |-> name, args |-> << >>, color |-> color, body |-> << >>]

TagT(t1, t2, body) == [name |-> "t", args |-> <<t1, t2>>, color |-> << >>, body |-> body]

\* effects.py: get_fade_effect
get_fade_effect(entry_ms, exit_ms) == <<Tag("fad", <<entry_ms, exit_ms>>)>>

\* effects.py: get_pop_in_effect
get_pop_in_effect(duration) ==
    <<Tag("fscx", <<50>>), Tag("fscy", <<50>>),
      TagT(0, duration, <<Tag("fscx", <<100>>), Tag("fscy", <<100>>)>>)>>

\* effects.py: get_pop_out_effect
get_pop_out_effect(start_time, duration) ==
    <<TagT(start_time, start_time + duration,
           <<Tag("fscx", <<50>>), Tag("fscy", <<50>>),
             TagC("alpha", <<"&", "H", "F", "F", "&">>)>>)>>

\* effects.py: get_bounce_effect
get_bounce_effect(duration) ==
    LET t1 == duration \div 3
        t2 == (duration * 2) \div 3
    IN  <<Tag("fscx", <<80>>), Tag("fscy", <<80>>),
          TagT(0, t1, <<Tag("fscx", <<110>>), Tag("fscy", <<110>>)>>),
          TagT(t1, t2, <<Tag("fscx", <<95>>), Tag("fscy", <<95>>)>>),
          TagT(t2, duration, <<Tag("fscx", <<100>>), Tag("fscy", <<100>>)>>)>>

\* the names of the tables of get_entry_effect and get_exit_effect
Catalog == {"none", "fade", "pop", "slide_up", "slide_down", "bounce"}

\* get_entry_effect, but a fade for the names the table does not hold
get_entry_effect_default_fade(effect_name, duration) ==
    CASE effect_name = "none"       -> << >>
      [] effect_name = "fade"       -> get_fade_effect(duration, 0)
      [] effect_name = "pop"        -> get_pop_in_effect(duration)
      [] effect_name = "slide_up"   -> <<Tag("fad", <<duration, 0>>)>>
      [] effect_name = "slide_down" -> <<Tag("fad", <<duration, 0>>)>>
      [] effect_name = "bounce"     -> get_bounce_effect(duration)
      [] OTHER                      -> get_fade_effect(duration, 0)

\* effects.py: get_entry_effect
get_entry_effect(effect_name, duration) ==
    CASE effect_name = "none"       -> << >>
      [] effect_name = "fade"       -> get_fade_effect(duration, 0)
      [] effect_name = "pop"        -> get_pop_in_effect(duration)
      [] effect_name = "slide_up"   -> <<Tag("fad", <<duration, 0>>)>>
      [] effect_name = "slide_down" -> <<Tag("fad", <<duration, 0>>)>>
      [] effect_name = "bounce"     -> get_bounce_effect(duration)
      [] OTHER                      -> << >>

\* get_exit_effect, but a fade for the names the table does not hold
get_exit_effect_default_fade(effect_name, duration, total_duration) ==
    LET start == total_duration - duration
    IN  CASE effect_name = "none"       -> << >>
          [] effect_name = "fade"       -> get_fade_effect(0, duration)
          [] effect_name = "pop"        -> get_pop_out_effect(start, duration)
          [] effect_name = "slide_up"   -> <<Tag("fad", <<0, duration>>)>>
          [] effect_name = "slide_down" -> <<Tag("fad", <<0, duration>>)>>
          [] effect_name = "bounce"     -> <<Tag("fad", <<0, duration>>)>>
          [] OTHER                      -> get_fade_effect(0, duration)

\* effects.py: get_exit_effect
get_exit_effect(effect_name, duration, total_duration) ==
    LET start == total_duration - duration
    IN  CASE effect_name = "none"       -> << >>
          [] effect_name = "fade"       -> get_fade_effect(0, duration)
          [] effect_name = "pop"        -> get_pop_out_effect(start, duration)
          [] effect_name = "slide_up"   -> <<Tag("fad", <<0, duration>>)>>
          [] effect_name = "slide_down" -> <<Tag("fad", <<0, duration>>)>>
          [] effect_name = "bounce"     -> <<Tag("fad", <<0, duration>>)>>
          [] OTHER                      -> << >>

(***************************************************************************)
(* theme_config.py: the theme and its defaults                             *)
(***************************************************************************)
None == "None"

White == <<"#", "F", "F", "F", "F", "F", "F">>

Green == <<"#", "0", "0", "F", "F", "8", "8">>

BlackCC == <<"#", "0", "0", "0", "0", "0", "0", "C", "C">>

Black == <<"#", "0", "0", "0", "0", "0", "0">>

Black80 == <<"#", "0", "0", "0", "0", "0", "0", "8", "0">>

FontConfig == [family |-> "Arial", size |-> 72, weight |-> "bold", style |-> "normal"]

ColorConfig == [primary |-> White, highlight |-> Green, background |-> BlackCC,
                outline |-> Black, shadow |-> Black80]

HighlightConfig == [enabled |-> TRUE, mode |-> "word", style |-> "color", transition |-> "instant"]

\* custom_y is an Optional[float]: << >> for None, <<y>> for the float y
LayoutConfig == [position |-> "bottom", custom_y |-> << >>, max_words_per_line |-> 5,
                 alignment |-> "center", margin_x |-> 50, margin_y |-> 100]

BackgroundConfig == [enabled |-> TRUE, style |-> "single", padding |-> 20,
                     border_radius |-> 15, opacity |-> Dec(8, 10)]

OutlineEffect == [enabled |-> TRUE, width |-> 3]

ShadowEffect == [enabled |-> FALSE, offset_x |-> 4, offset_y |-> 4, blur |-> 2]

EffectsConfig == [outline |-> OutlineEffect, shadow |-> ShadowEffect]

AnimationConfig == [entry |-> "pop", exit |-> "fade", duration |-> 200, word_stagger |-> 50]

SubtitleThemeConfig ==
    [name |-> "default", version |-> "1.0", font |-> FontConfig, colors |-> ColorConfig,
     highlight |-> HighlightConfig, layout |-> LayoutConfig, background |-> BackgroundConfig,
     effects |-> EffectsConfig, animation |-> AnimationConfig]

(***************************************************************************)
(* theme_config.py: from_dict and to_dict.  A document (a dict) is a       *)
(* record whose keys may be absent, the empty dict the empty record << >>. *)
(***************************************************************************)
\* Python's None where a dict is expected
NoneValue == [None |-> TRUE]

IsNone(v) == "None" \in DOMAIN v

\* 'NoneType' object has no attribute 'get'
AttributeError == [raised |-> "AttributeError"]

\* d.get(key, default)
dict_get(d, key, default) == IF key \in DOMAIN d THEN d[key] ELSE default

\* lines 126-134
from_dict_font(data, config) ==
    IF "font" \in DOMAIN data
    THEN LET font_data == data.font
         IN  [family |-> dict_get(font_data, "family", config.font.family),
              size   |-> dict_get(font_data, "size", config.font.size),
              weight |-> dict_get(font_data, "weight", config.font.weight),
              style  |-> dict_get(font_data, "style", config.font.style)]
    ELSE config.font

\* from_dict_colors, but highlight read from the key of primary
from_dict_colors_copied_key(data, config) ==
    IF "colors" \in DOMAIN data
    THEN LET colors_data == data.colors
         IN  [primary    |-> dict_get(colors_data, "primary", config.colors.primary),
              highlight  |-> dict_get(colors_data, "primary", config.colors.highlight),
              background |-> dict_get(colors_data, "background", config.colors.background),
              outline    |-> dict_get(colors_data, "outline", config.colors.outline),
              shadow     |-> dict_get(colors_data, "shadow", config.colors.shadow)]
    ELSE config.colors

\* lines 137-145
from_dict_colors(data, config) ==
    IF "colors" \in DOMAIN data
    THEN LET colors_data == data.colors
         IN  [primary    |-> dict_get(colors_data, "primary", config.colors.primary),
              highlight  |-> dict_get(colors_data, "highlight", config.colors.highlight),
              background |-> dict_get(colors_data, "background", config.colors.background),
              outline    |-> dict_get(colors_data, "outline", config.colors.outline),
              shadow     |-> dict_get(colors_data, "shadow", config.colors.shadow)]
    ELSE config.colors

\* lines 148-155
from_dict_highlight(data, config) ==
    IF "highlight" \in DOMAIN data
    THEN LET hl_data == data.highlight
         IN  [enabled    |-> dict_get(hl_data, "enabled", config.highlight.enabled),
              mode       |-> dict_get(hl_data, "mode", config.highlight.mode),
              style      |-> dict_get(hl_data, "style", config.highlight.style),
              transition |-> dict_get(hl_data, "transition", config.highlight.transition)]
    ELSE config.highlight

\* lines 158-167
from_dict_layout(data, config) ==
    IF "layout" \in DOMAIN data
    THEN LET layout_data == data.layout
         IN  [position |-> dict_get(layout_data, "position", config.layout.position),
              custom_y |-> dict_get(layout_data, "custom_y", config.layout.custom_y),
              max_words_per_line |-> dict_get(layout_data, "max_words_per_line",
                                              config.layout.max_words_per_line),
              alignment |-> dict_get(layout_data, "alignment", config.layout.alignment),
              margin_x  |-> dict_get(layout_data, "margin_x", config.layout.margin_x),
              margin_y  |-> dict_get(layout_data, "margin_y", config.layout.margin_y)]
    ELSE config.layout

\* lines 170-178
from_dict_background(data, config) ==
    IF "background" \in DOMAIN data
    THEN LET bg_data == data.background
         IN  [enabled |-> dict_get(bg_data, "enabled", config.background.enabled),
              style   |-> dict_get(bg_data, "style", config.background.style),
              padding |-> dict_get(bg_data, "padding", config.background.padding),
              border_radius |-> dict_get(bg_data, "border_radius",
                                         config.background.border_radius),
              opacity |-> dict_get(bg_data, "opacity", config.background.opacity)]
    ELSE config.background

\* lines 181-197
from_dict_effects(data, config) ==
    IF "effects" \in DOMAIN data
    THEN LET effects_data == data.effects
             outline_data == dict_get(effects_data, "outline", << >>)
             shadow_data  == dict_get(effects_data, "shadow", << >>)
         IN  [outline |-> [enabled |-> dict_get(outline_data, "enabled",
                                                config.effects.outline.enabled),
                           width   |-> dict_get(outline_data, "width",
                                                config.effects.outline.width)],
              shadow  |-> [enabled  |-> dict_get(shadow_data, "enabled",
                                                 config.effects.shadow.enabled),
                           offset_x |-> dict_get(shadow_data, "offset_x",
                                                 config.effects.shadow.offset_x),
                           offset_y |-> dict_get(shadow_data, "offset_y",
                                                 config.effects.shadow.offset_y),
                           blur     |-> dict_get(shadow_data, "blur",
                                                 config.effects.shadow.blur)]]
    ELSE config.effects

\* lines 200-207
from_dict_animation(data, config) ==
    IF "animation" \in DOMAIN data
    THEN LET anim_data == data.animation
         IN  [entry    |-> dict_get(anim_data, "entry", config.animation.entry),
              exit     |-> dict_get(anim_data, "exit", config.animation.exit),
              duration |-> dict_get(anim_data, "duration", config.animation.duration),
              word_stagger |-> dict_get(anim_data, "word_stagger",
                                        config.animation.word_stagger)]
    ELSE config.animation

SectionNames == {"font", "colors", "highlight", "layout", "background", "effects", "animation"}

\* a .get() on a section, or on the outline or shadow of effects, that is None
GetOnNone(data) ==
    \/ \E sec \in SectionNames \cap DOMAIN data : IsNone(data[sec])
    \/ /\ "effects" \in DOMAIN data
       /\ ~IsNone(data.effects)
       /\ \E e \in {"outline", "shadow"} \cap DOMAIN data.effects : IsNone(data.effects[e])

\* SubtitleThemeConfig.from_dict: the theme, or the AttributeError raised
from_dict(data) ==
    LET config == SubtitleThemeConfig
    IN  IF IsNone(data) THEN config
        ELSE IF GetOnNone(data) THEN AttributeError
        ELSE [name       |-> dict_get(data, "name", config.name),
              version    |-> dict_get(data, "version", config.version),
              font       |-> from_dict_font(data, config),
              colors     |-> from_dict_colors(data, config),
              highlight  |-> from_dict_highlight(data, config),
              layout     |-> from_dict_layout(data, config),
              background |-> from_dict_background(data, config),
              effects    |-> from_dict_effects(data, config),
              animation  |-> from_dict_animation(data, config)]

\* to_dict_layout, but the custom_y key left out
to_dict_layout_without_custom_y(self) ==
    [position |-> self.layout.position,
     max_words_per_line |-> self.layout.max_words_per_line,
     alignment |-> self.layout.alignment,
     margin_x |-> self.layout.margin_x,
     margin_y |-> self.layout.margin_y]

\* lines 234-241
to_dict_layout(self) ==
    [position |-> self.layout.position,
     custom_y |-> self.layout.custom_y,
     max_words_per_line |-> self.layout.max_words_per_line,
     alignment |-> self.layout.alignment,
     margin_x |-> self.layout.margin_x,
     margin_y |-> self.layout.margin_y]

\* SubtitleThemeConfig.to_dict
to_dict(self) ==
    [name    |-> self.name,
     version |-> self.version,
     font    |-> [family |-> self.font.family, size |-> self.font.size,
                  weight |-> self.font.weight, style |-> self.font.style],
     colors  |-> [primary |-> self.colors.primary, highlight |-> self.colors.highlight,
                  background |-> self.colors.background, outline |-> self.colors.outline,
                  shadow |-> self.colors.shadow],
     highlight |-> [enabled |-> self.highlight.enabled, mode |-> self.highlight.mode,
                    style |-> self.highlight.style,
                    transition |-> self.highlight.transition],
     layout  |-> to_dict_layout(self),
     background |-> [enabled |-> self.background.enabled, style |-> self.background.style,
                     padding |-> self.background.padding,
                     border_radius |-> self.background.border_radius,
                     opacity |-> self.background.opacity],
     effects |-> [outline |-> [enabled |-> self.effects.outline.enabled,
                               width |-> self.effects.outline.width],
                  shadow  |-> [enabled |-> self.effects.shadow.enabled,
                               offset_x |-> self.effects.shadow.offset_x,
                               offset_y |-> self.effects.shadow.offset_y,
                               blur |-> self.effects.shadow.blur]],
     animation |-> [entry |-> self.animation.entry, exit |-> self.animation.exit,
                    duration |-> self.animation.duration,
                    word_stagger |-> self.animation.word_stagger]]

(***************************************************************************)
(* subtitle_renderer.py                                                    *)
(***************************************************************************)
\* margin_v, but the custom_y percentage applied at every position
margin_v_custom_first(theme, video_height) ==
    IF theme.layout.custom_y # << >>
    THEN Trunc(FDivInt(FMul(FromInt(video_height), theme.layout.custom_y[1]), 100))
    ELSE IF theme.layout.position = "center" THEN (video_height \div 2) - 100
    ELSE theme.layout.margin_y

\* generate_ass_header lines 45-52
margin_v(theme, video_height) ==
    IF theme.layout.position = "top" THEN theme.layout.margin_y
    ELSE IF theme.layout.position = "center" THEN (video_height \div 2) - 100
    ELSE IF theme.layout.custom_y # << >>
         THEN Trunc(FDivInt(FMul(FromInt(video_height), theme.layout.custom_y[1]), 100))
    ELSE theme.layout.margin_y

\* one Style line of the header (lines 87-88); the fields the template fixes
\* (Underline, StrikeOut, ScaleX, ScaleY, Spacing, Angle, Encoding) are left out
StyleLine(name, theme, video_height, first_color) ==
    [name          |-> name,
     fontname      |-> theme.font.family,
     fontsize      |-> theme.font.size,
     primary       |-> first_color,
     secondary     |-> hex_to_ass_color(theme.colors.highlight),
     outline_color |-> hex_to_ass_color(theme.colors.outline),
     back_color    |-> hex_to_ass_color(theme.colors.background),
     bold          |-> IF theme.font.weight = "bold" THEN -1 ELSE 0,
     italic        |-> IF theme.font.style = "italic" THEN -1 ELSE 0,
     border_style  |-> IF theme.background.enabled /\ theme.background.style = "single"
                       THEN 3 ELSE 1,
     outline       |-> IF theme.effects.outline.enabled THEN theme.effects.outline.width ELSE 0,
     shadow        |-> IF theme.effects.shadow.enabled THEN theme.effects.shadow.offset_x ELSE 0,
     alignment     |-> get_alignment_code(theme.layout.position, theme.layout.alignment),
     margin_l      |-> theme.layout.margin_x,
     margin_r      |-> theme.layout.margin_x,
     margin_v      |-> margin_v(theme, video_height)]

\* SubtitleRenderer.generate_ass_header: the header, or ValueError from a colour
generate_ass_header(theme, video_width, video_height) ==
    IF \/ RaisedColor(hex_to_ass_color(theme.colors.primary))
       \/ RaisedColor(hex_to_ass_color(theme.colors.highlight))
       \/ RaisedColor(hex_to_ass_color(theme.colors.outline))
       \/ RaisedColor(hex_to_ass_color(theme.colors.background))
    THEN ValueError
    ELSE [sections   |-> <<"Script Info", "V4+ Styles", "Events">>,
          title      |-> theme.name,
          play_res_x |-> video_width,
          play_res_y |-> video_height,
          styles     |-> <<StyleLine("Default", theme, video_height,
                                     hex_to_ass_color(theme.colors.primary)),
                           StyleLine("Highlight", theme, video_height,
                                     hex_to_ass_color(theme.colors.highlight))>>]

\* int((b - a) * 1000)
RelMs(a, b) == Trunc(FMul(FSub(b, a), FromInt(1000)))

\* A Dialogue line.  Layer 0, style Default and the zero margins are fixed by
\* the template; text is an optional brace block of tags (preamble) followed
\* by the parts joined by single spaces, each part an optional brace block of
\* tags and a run of text.
Dialogue(start, end, preamble, parts) ==
    [layer |-> 0, start |-> start, end |-> end, style |-> "Default",
     preamble |-> preamble, parts |-> parts]

\* SubtitleRenderer.render_segment_simple
render_segment_simple(theme, segment) ==
    LET duration_ms == RelMs(segment.start, segment.end)
        entry == IF theme.animation.entry # "none"
                 THEN get_entry_effect(theme.animation.entry, theme.animation.duration)
                 ELSE << >>
        exit  == IF theme.animation.exit # "none"
                 THEN get_exit_effect(theme.animation.exit, theme.animation.duration, duration_ms)
                 ELSE << >>
    IN  <<Dialogue(format_time_ass(segment.start), format_time_ass(segment.end),
                   entry \o exit, <<[tags |-> << >>, word |-> Strip(segment.text)]>>)>>

\* first_start, but the start of the last word
first_start_of_last(chunk) == chunk[Len(chunk)].start

\* lines 136 and 202: chunk[0]["start"]
first_start(chunk) == chunk[1].start

\* last_end, but the end of the first word
last_end_of_first(chunk) == chunk[1].end

\* lines 137 and 203: chunk[-1]["end"]
last_end(chunk) == chunk[Len(chunk)].end

\* render_segment_karaoke lines 136-181: the Dialogue line of one chunk
karaoke_line(theme, chunk) ==
    LET chunk_start == first_start(chunk)
        chunk_end   == last_end(chunk)
        duration_ms == RelMs(chunk_start, chunk_end)
        entry_effect == IF theme.animation.entry # "none"
                        THEN get_entry_effect(theme.animation.entry, theme.animation.duration)
                        ELSE << >>
        exit_effect  == IF theme.animation.exit # "none"
                        THEN get_exit_effect(theme.animation.exit, theme.animation.duration,
                                             duration_ms)
                        ELSE << >>
        primary_color   == hex_to_ass_color(theme.colors.primary)
        highlight_color == hex_to_ass_color(theme.colors.highlight)
        part(w) ==
            IF theme.highlight.enabled
            THEN LET word_start_rel == RelMs(chunk_start, w.start)
                     word_end_rel   == RelMs(chunk_start, w.end)
                 IN  [tags |-> <<TagC("c", primary_color),
                                 TagT(word_start_rel, word_start_rel, <<TagC("c", highlight_color)>>),
                                 TagT(word_end_rel, word_end_rel, <<TagC("c", primary_color)>>)>>,
                      word |-> w.word]
            ELSE [tags |-> << >>, word |-> w.word]
    IN  IF theme.highlight.enabled /\ (RaisedColor(primary_color) \/ RaisedColor(highlight_color))
        THEN ValueError
        ELSE Dialogue(format_time_ass(chunk_start), format_time_ass(chunk_end),
                      entry_effect \o exit_effect, [k \in 1..Len(chunk) |-> part(chunk[k])])

\* per_word_line, but the colour changes instant when highlight.transition says so
per_word_line_by_transition(theme, chunk) ==
    LET chunk_start == first_start(chunk)
        chunk_end   == last_end(chunk)
        highlight_color == hex_to_ass_color(theme.colors.highlight)
        primary_color   == hex_to_ass_color(theme.colors.primary)
        window == IF theme.highlight.transition = "instant" THEN 0 ELSE 50
        part(w) ==
            LET word_start_rel == RelMs(chunk_start, w.start)
                word_end_rel   == RelMs(chunk_start, w.end)
            IN  [tags |-> <<TagC("c", primary_color),
                            TagT(word_start_rel, word_start_rel + window,
                                 <<TagC("c", highlight_color)>>),
                            TagT(word_end_rel, word_end_rel + window,
                                 <<TagC("c", primary_color)>>)>>,
                 word |-> w.word]
        fade_in  == IF theme.animation.entry # "none"
                    THEN <<Tag("fad", <<theme.animation.duration, 0>>)>> ELSE << >>
        fade_out == IF theme.animation.exit # "none"
                    THEN <<Tag("fad", <<0, theme.animation.duration>>)>> ELSE << >>
    IN  IF RaisedColor(primary_color) \/ RaisedColor(highlight_color) THEN ValueError
        ELSE Dialogue(format_time_ass(chunk_start), format_time_ass(chunk_end),
                      fade_in \o fade_out, [k \in 1..Len(chunk) |-> part(chunk[k])])

\* render_segment_per_word_background lines 202-242: the Dialogue line of one chunk
per_word_line(theme, chunk) ==
    LET chunk_start == first_start(chunk)
        chunk_end   == last_end(chunk)
        highlight_color == hex_to_ass_color(theme.colors.highlight)
        primary_color   == hex_to_ass_color(theme.colors.primary)
        part(w) ==
            LET word_start_rel == RelMs(chunk_start, w.start)
                word_end_rel   == RelMs(chunk_start, w.end)
            IN  [tags |-> <<TagC("c", primary_color),
                            TagT(word_start_rel, word_start_rel + 50, <<TagC("c", highlight_color)>>),
                            TagT(word_end_rel, word_end_rel + 50, <<TagC("c", primary_color)>>)>>,
                 word |-> w.word]
        fade_in  == IF theme.animation.entry # "none"
                    THEN <<Tag("fad", <<theme.animation.duration, 0>>)>> ELSE << >>
        fade_out == IF theme.animation.exit # "none"
                    THEN <<Tag("fad", <<0, theme.animation.duration>>)>> ELSE << >>
    IN  IF RaisedColor(primary_color) \/ RaisedColor(highlight_color) THEN ValueError
        ELSE Dialogue(format_time_ass(chunk_start), format_time_ass(chunk_end),
                      fade_in \o fade_out, [k \in 1..Len(chunk) |-> part(chunk[k])])

NonEmpty(c) == c # << >>

\* lines 130-183 and 196-244: a ValueError raised while writing one chunk's line
\* ends the method; otherwise the lines are returned in chunk order
ChunkLines(lines) ==
    IF \E k \in 1..Len(lines) : Raised(lines[k]) THEN <<ValueError>> ELSE lines

RaisedLines(lines) == \E k \in 1..Len(lines) : Raised(lines[k])

\* SubtitleRenderer.render_segment_karaoke
render_segment_karaoke(theme, segment) ==
    LET word_timings == calculate_word_timings(segment)
        chunks == SelectSeq(chunk_words(word_timings, theme.layout.max_words_per_line),
                            NonEmpty)
    IN  IF word_timings = << >> THEN render_segment_simple(theme, segment)
        ELSE ChunkLines([k \in 1..Len(chunks) |-> karaoke_line(theme, chunks[k])])

\* SubtitleRenderer.render_segment_per_word_background
render_segment_per_word_background(theme, segment) ==
    LET word_timings == calculate_word_timings(segment)
        chunks == SelectSeq(chunk_words(word_timings, theme.layout.max_words_per_line),
                            NonEmpty)
    IN  IF word_timings = << >> THEN render_segment_simple(theme, segment)
        ELSE ChunkLines([k \in 1..Len(chunks) |-> per_word_line(theme, chunks[k])])

\* select_strategy, but the per-word method only when the background is enabled
select_strategy_enabled_only(theme) ==
    IF theme.background.enabled /\ theme.background.style = "per_word"
    THEN "render_segment_per_word_background"
    ELSE IF theme.highlight.enabled THEN "render_segment_karaoke"
    ELSE "render_segment_simple"

\* render_segments lines 259-264: the method a segment is dispatched to
select_strategy(theme) ==
    IF theme.background.style = "per_word" THEN "render_segment_per_word_background"
    ELSE IF theme.highlight.enabled THEN "render_segment_karaoke"
    ELSE "render_segment_simple"

(***************************************************************************)
(* State                                                                   *)
(***************************************************************************)
VARIABLES
    theme,          \* SubtitleRenderer.theme
    video_size,     \* SubtitleRenderer.video_width, video_height
    segments,       \* the argument of render_segments
    pc,             \* position in render_segments
    i,              \* the segment the loop of render_segments is at
    ass_content,    \* the document built so far: header and Dialogue lines
    result,         \* what render_segments returned or raised
    calls,          \* bookkeeping: the method each segment was dispatched to
    origin,         \* bookkeeping: for each Dialogue line, the method that
                    \* emitted it, its segment and its chunk
    call,           \* a call of one function on its own: name and arguments
    ret,            \* what that call returned or raised
    output_file,    \* render_to_file: the file at output_path
    history,        \* bookkeeping: the earlier render_segments calls, their
                    \* renderer, argument and result
    workers,        \* the editor's PreviewRenderWorker threads, by render_id
    widgets,        \* the values of the ThemePanel widgets
    preview         \* the render_id of the preview the main window's player
                    \* has loaded, 0 when it has none

vars == <<theme, video_size, segments, pc, i, ass_content, result, calls, origin, call, ret,
          output_file, history, workers, widgets, preview>>

editor_vars == <<workers, widgets, preview>>

render_vars == <<theme, video_size, segments, pc, i, ass_content, result, calls, origin,
                 output_file, history, editor_vars>>

NoCall ==
    /\ call = [fn |-> "none"]
    /\ ret = [done |-> FALSE]

\* gui.py lines 1315-1322: the widgets show the values of the selected theme
WidgetValues(t) ==
    [max_words_spin  |-> t.layout.max_words_per_line,
     position_combo  |-> t.layout.position,
     highlight_check |-> t.highlight.enabled,
     font_size_spin  |-> t.font.size,
     outline_check   |-> t.effects.outline.enabled,
     shadow_check    |-> t.effects.shadow.enabled,
     entry_combo     |-> t.animation.entry,
     exit_combo      |-> t.animation.exit]

\* the file at output_path before open() and after it
Untouched == [opened |-> FALSE]

NoEditor ==
    /\ workers = << >>
    /\ preview = 0
    /\ widgets = WidgetValues(SubtitleThemeConfig)

NoRender ==
    /\ NoEditor
    /\ output_file = Untouched
    /\ history = << >>
    /\ theme = SubtitleThemeConfig
    /\ video_size = <<1080, 1920>>
    /\ segments = << >>
    /\ pc = "idle"
    /\ i = 0
    /\ ass_content = None
    /\ result = None
    /\ calls = << >>
    /\ origin = << >>

(***************************************************************************)
(* Inputs                                                                  *)
(***************************************************************************)
MaxSegments == 2

MaxWordsPerLine == 2

MaxTextWords == 3

MaxWordLen == 4

MaxChunkInput == 5

Seqs(S, n) == UNION {[1..k -> S] : k \in 0..n}

\* times in seconds, as the decimal literals n/10
T(n) == Dec(n, 10)

W(word, start, end) == [word |-> word, start |-> T(start), end |-> T(end)]

\* words of lengths ls, separated by single spaces
RECURSIVE TextOf(_)
TextOf(ls) ==
    IF ls = << >> THEN << >>
    ELSE IF Len(ls) = 1 THEN Chars(ls[1], "a")
    ELSE Chars(ls[1], "a") \o <<" ">> \o TextOf(Tail(ls))

Themes ==
    {[SubtitleThemeConfig EXCEPT !.background.style = bs, !.background.enabled = be,
                                 !.highlight.enabled = he, !.layout.max_words_per_line = mw] :
        bs \in {"single", "per_word", "none"}, be \in BOOLEAN, he \in BOOLEAN,
        mw \in 1..MaxWordsPerLine}

SegmentChoices ==
    { \* no "words" key: timings are estimated from the text
      [start |-> T(0), end |-> T(14), text |-> TextOf(<<2, 4>>)],
      [start |-> T(14), end |-> T(20), text |-> <<" ">> \o TextOf(<<1, 1, 1>>)],
      [start |-> T(20), end |-> T(20), text |-> TextOf(<<1, 1>>)],
      [start |-> T(30), end |-> T(40), text |-> <<" ", " ">>],
      \* word timestamps inside the segment, one blank entry
      [start |-> T(14), end |-> T(20), text |-> TextOf(<<2, 5>>),
       words |-> <<W(<<"h", "i", " ">>, 14, 16), W(<<" ">>, 16, 16),
                   W(<<" ", "t", "h", "e", "r", "e">>, 16, 20)>>],
      \* the editor's export of a segment without word timestamps (gui.py line 2128)
      [start |-> T(20), end |-> T(30), text |-> TextOf(<<2>>), words |-> << >>],
      \* word timestamps that do not lie inside the segment
      [start |-> T(0), end |-> T(10), text |-> TextOf(<<2, 4>>),
       words |-> <<W(<<"a", "b">>, 50, 60), W(<<"a", "b", "c", "d">>, 60, 70)>>] }

(***************************************************************************)
(* render_segments, one step per statement of its body                     *)
(***************************************************************************)
InitRender ==
    /\ theme \in Themes
    /\ video_size = <<1080, 1920>>
    /\ segments \in Seqs(SegmentChoices, MaxSegments)
    /\ pc = "header"
    /\ i = 1
    /\ ass_content = None
    /\ result = None
    /\ calls = << >>
    /\ origin = << >>
    /\ output_file = Untouched
    /\ history = << >>
    /\ NoEditor
    /\ NoCall

\* GenerateAssHeader, but the events of the renderer's previous document kept
GenerateAssHeaderKeepingEvents ==
    /\ pc = "header"
    /\ LET header == generate_ass_header(theme, video_size[1], video_size[2])
       IN  IF Raised(header)
           THEN /\ pc' = "raised"
                /\ result' = header
                /\ UNCHANGED ass_content
           ELSE /\ pc' = "segments"
                /\ ass_content' = [header |-> header,
                                   events |-> IF history = << >> THEN << >>
                                              ELSE history[Len(history)].result.events]
                /\ UNCHANGED result
    /\ UNCHANGED <<theme, video_size, segments, i, calls, origin, call, ret>>
    /\ UNCHANGED <<output_file, history, editor_vars>>

\* line 256
GenerateAssHeader ==
    /\ pc = "header"
    /\ LET header == generate_ass_header(theme, video_size[1], video_size[2])
       IN  IF Raised(header)
           THEN /\ pc' = "raised"
                /\ result' = header
                /\ UNCHANGED ass_content
           ELSE /\ pc' = "segments"
                /\ ass_content' = [header |-> header, events |-> << >>]
                /\ UNCHANGED result
    /\ UNCHANGED <<theme, video_size, segments, i, calls, origin, call, ret>>
    /\ UNCHANGED <<output_file, history, editor_vars>>

\* RenderSegment, but the lines of the segment put before the document's
RenderSegmentPrepend(method, lines, emitter) ==
    /\ pc = "segments"
    /\ i <= Len(segments)
    /\ select_strategy(theme) = method
    /\ calls' = Append(calls, method)
    /\ IF RaisedLines(lines)
       THEN /\ pc' = "raised"
            /\ result' = ValueError
            /\ UNCHANGED <<ass_content, origin, i>>
       ELSE /\ ass_content' = [ass_content EXCEPT !.events = lines \o @]
            /\ origin' = [k \in 1..Len(lines) |->
                             [method |-> emitter, segment |-> i, chunk |-> k]] \o origin
            /\ i' = i + 1
            /\ UNCHANGED <<pc, result>>
    /\ UNCHANGED <<theme, video_size, segments, call, ret, output_file, history, editor_vars>>

\* lines 258-264: one iteration of the loop, the segment rendered by method
\* whose lines are lines; emitter names the method each line was written by
RenderSegment(method, lines, emitter) ==
    /\ pc = "segments"
    /\ i <= Len(segments)
    /\ select_strategy(theme) = method
    /\ calls' = Append(calls, method)
    /\ IF RaisedLines(lines)
       THEN /\ pc' = "raised"
            /\ result' = ValueError
            /\ UNCHANGED <<ass_content, origin, i>>
       ELSE /\ ass_content' = [ass_content EXCEPT !.events = @ \o lines]
            /\ origin' = origin \o [k \in 1..Len(lines) |->
                                      [method |-> emitter, segment |-> i, chunk |-> k]]
            /\ i' = i + 1
            /\ UNCHANGED <<pc, result>>
    /\ UNCHANGED <<theme, video_size, segments, call, ret, output_file, history, editor_vars>>

\* a word-level method falls back to render_segment_simple (lines 124-125, 192-193)
Emitter(method, segment) ==
    IF calculate_word_timings(segment) = << >> THEN "render_segment_simple" ELSE method

RenderSegmentPerWordBackground ==
    /\ i <= Len(segments)
    /\ RenderSegment("render_segment_per_word_background",
                     render_segment_per_word_background(theme, segments[i]),
                     Emitter("render_segment_per_word_background", segments[i]))

RenderSegmentKaraoke ==
    /\ i <= Len(segments)
    /\ RenderSegment("render_segment_karaoke",
                     render_segment_karaoke(theme, segments[i]),
                     Emitter("render_segment_karaoke", segments[i]))

RenderSegmentSimple ==
    /\ i <= Len(segments)
    /\ RenderSegment("render_segment_simple",
                     render_segment_simple(theme, segments[i]),
                     "render_segment_simple")

\* line 266
ReturnContent ==
    /\ pc = "segments"
    /\ i > Len(segments)
    /\ pc' = "done"
    /\ result' = ass_content
    /\ UNCHANGED <<theme, video_size, segments, i, ass_content, calls, origin, call, ret>>
    /\ UNCHANGED <<output_file, history, editor_vars>>

Next ==
    \/ GenerateAssHeader
    \/ RenderSegmentPerWordBackground
    \/ RenderSegmentKaraoke
    \/ RenderSegmentSimple
    \/ ReturnContent

Spec == InitRender /\ [][Next]_vars

(***************************************************************************)
(* render_to_file, for themes with malformed colours, animation names      *)
(* outside the tables of effects.py and max_words_per_line below 1         *)
(***************************************************************************)
Strategies == {<<"per_word", TRUE>>, <<"single", TRUE>>, <<"single", FALSE>>}

MalformedColors == {<<"#", "F", "F", "F">>, <<"r", "e", "d">>}

ColorFields == {"primary", "highlight", "background", "outline", "shadow"}

AnimationPairs ==
    {<<"zoom", x>> : x \in Catalog \cup {"zoom"}}
    \cup {<<e, "zoom">> : e \in Catalog}
    \cup {<<"pop", "fade">>, <<"bounce", "pop">>, <<"none", "none">>,
          <<"slide_up", "slide_down">>, <<"fade", "bounce">>}

VariantThemes ==
    {[SubtitleThemeConfig EXCEPT !.colors[f] = c, !.background.style = st[1],
                                 !.highlight.enabled = st[2]] :
        f \in ColorFields, c \in MalformedColors, st \in Strategies}
    \cup {[SubtitleThemeConfig EXCEPT !.animation.entry = a[1], !.animation.exit = a[2],
                                      !.background.style = st[1], !.highlight.enabled = st[2],
                                      !.layout.max_words_per_line = MaxWordsPerLine] :
             a \in AnimationPairs, st \in Strategies}
    \cup {[SubtitleThemeConfig EXCEPT !.layout.max_words_per_line = mw,
                                      !.background.style = st[1], !.highlight.enabled = st[2]] :
             mw \in {0, -1}, st \in Strategies}

\* a segment without word timestamps, one with them, and the editor's export
\* of one without (gui.py line 2128)
EstimatedSegment == [start |-> T(0), end |-> T(14), text |-> TextOf(<<2, 4>>)]

TimedSegment ==
    [start |-> T(14), end |-> T(20), text |-> TextOf(<<2, 5>>),
     words |-> <<W(<<"h", "i", " ">>, 14, 16), W(<<" ">>, 16, 16),
                 W(<<" ", "t", "h", "e", "r", "e">>, 16, 20)>>]

UntimedSegment == [start |-> T(20), end |-> T(30), text |-> TextOf(<<2>>), words |-> << >>]

FewSegments == {EstimatedSegment, TimedSegment, UntimedSegment}

InitToFile ==
    /\ theme \in VariantThemes
    /\ video_size = <<1080, 1920>>
    /\ segments \in Seqs(FewSegments, MaxSegments)
    /\ pc = "header"
    /\ i = 1
    /\ ass_content = None
    /\ result = None
    /\ calls = << >>
    /\ origin = << >>
    /\ output_file = Untouched
    /\ history = << >>
    /\ NoEditor
    /\ NoCall

\* OpenOutput, but the file opened before the document is rendered
OpenOutputBeforeRender ==
    /\ pc = "header"
    /\ output_file = Untouched
    /\ output_file' = [opened |-> TRUE, written |-> FALSE]
    /\ UNCHANGED <<theme, video_size, segments, pc, i, ass_content, result, calls, origin>>
    /\ UNCHANGED <<call, ret, history, editor_vars>>

\* render_to_file line 281: open(output_path, "w") after render_segments returned
OpenOutput ==
    /\ pc = "done"
    /\ pc' = "opened"
    /\ output_file' = [opened |-> TRUE, written |-> FALSE]
    /\ UNCHANGED <<theme, video_size, segments, i, ass_content, result, calls, origin>>
    /\ UNCHANGED <<call, ret, history, editor_vars>>

\* render_to_file lines 282-284: f.write(ass_content), return output_path
WriteOutput ==
    /\ pc = "opened"
    /\ pc' = "saved"
    /\ output_file' = [opened |-> TRUE, written |-> TRUE, content |-> result]
    /\ UNCHANGED <<theme, video_size, segments, i, ass_content, result, calls, origin>>
    /\ UNCHANGED <<call, ret, history, editor_vars>>

NextToFile ==
    \/ GenerateAssHeader
    \/ RenderSegmentPerWordBackground
    \/ RenderSegmentKaraoke
    \/ RenderSegmentSimple
    \/ ReturnContent
    \/ OpenOutput
    \/ WriteOutput

SpecToFile == InitToFile /\ [][NextToFile]_vars

(***************************************************************************)
(* render_segments called again: on the same renderer, or on a renderer    *)
(* constructed for the call.  Its local variables start afresh.            *)
(***************************************************************************)
MaxCalls == 2

RepeatThemes ==
    {[SubtitleThemeConfig EXCEPT !.background.style = st[1], !.highlight.enabled = st[2],
                                 !.layout.max_words_per_line = MaxWordsPerLine] :
        st \in Strategies}

RepeatSegmentLists == {<< >>, <<TimedSegment>>, <<EstimatedSegment, TimedSegment>>}

VideoSizes == {<<1080, 1920>>, <<540, 960>>}

InitRepeat ==
    /\ theme \in RepeatThemes
    /\ video_size = <<1080, 1920>>
    /\ segments \in RepeatSegmentLists
    /\ pc = "header"
    /\ i = 1
    /\ ass_content = None
    /\ result = None
    /\ calls = << >>
    /\ origin = << >>
    /\ output_file = Untouched
    /\ history = << >>
    /\ NoEditor
    /\ NoCall

\* the call that returned, as history keeps it
ThisCall == [theme |-> theme, video_size |-> video_size, segments |-> segments,
             result |-> result]

\* render_segments called on the same renderer with another segment list
RenderSegmentsAgain ==
    /\ pc = "done"
    /\ Len(history) + 1 < MaxCalls
    /\ history' = Append(history, ThisCall)
    /\ segments' \in RepeatSegmentLists
    /\ pc' = "header"
    /\ i' = 1
    /\ ass_content' = None
    /\ result' = None
    /\ calls' = << >>
    /\ origin' = << >>
    /\ UNCHANGED <<theme, video_size, output_file, editor_vars, call, ret>>

\* SubtitleRenderer(theme, video_width, video_height) constructed, and
\* render_segments called on it
RenderSegmentsOnNewRenderer ==
    /\ pc = "done"
    /\ Len(history) + 1 < MaxCalls
    /\ history' = Append(history, ThisCall)
    /\ theme' \in RepeatThemes
    /\ video_size' \in VideoSizes
    /\ segments' \in RepeatSegmentLists
    /\ pc' = "header"
    /\ i' = 1
    /\ ass_content' = None
    /\ result' = None
    /\ calls' = << >>
    /\ origin' = << >>
    /\ UNCHANGED <<output_file, editor_vars, call, ret>>

NextRepeat ==
    \/ GenerateAssHeader
    \/ RenderSegmentPerWordBackground
    \/ RenderSegmentKaraoke
    \/ RenderSegmentSimple
    \/ ReturnContent
    \/ RenderSegmentsAgain
    \/ RenderSegmentsOnNewRenderer

SpecRepeat == InitRepeat /\ [][NextRepeat]_vars

(***************************************************************************)
(* gui.py: the editor.  The UI thread runs the handlers, each              *)
(* PreviewRenderWorker runs render_to_file in a thread of its own.  The    *)
(* workers are handed MainWindow.current_theme itself, the object          *)
(* ThemePanel._update_theme_setting assigns to: theme is that one object.  *)
(***************************************************************************)
MaxWorkers == 2

\* the values the user can give each widget
WidgetChoices ==
    [max_words_spin  |-> {1, 5},
     position_combo  |-> {"bottom"},
     highlight_check |-> BOOLEAN,
     font_size_spin  |-> {72},
     outline_check   |-> {TRUE},
     shadow_check    |-> {FALSE},
     entry_combo     |-> {"pop"},
     exit_combo      |-> {"fade"}]

\* the editor's segments after a transcription; words is << >> for a
\* SubtitleSegment without word timestamps (None or [])
EditorSegmentLists == {<<TimedSegment>>}

\* ThemePanel._update_theme_setting lines 1343-1350
update_theme_setting(t, wd) ==
    [t EXCEPT !.layout.max_words_per_line = wd.max_words_spin,
              !.layout.position = wd.position_combo,
              !.highlight.enabled = wd.highlight_check,
              !.font.size = wd.font_size_spin,
              !.effects.outline.enabled = wd.outline_check,
              !.effects.shadow.enabled = wd.shadow_check,
              !.animation.entry = wd.entry_combo,
              !.animation.exit = wd.exit_combo]

\* PreviewRenderWorker.__init__ and start(); themes_read is bookkeeping: the
\* theme states the worker's render has read so far
NewWorker == [pc |-> "start", i |-> 0, segments_dict |-> << >>, ass_content |-> None,
              output_file |-> Untouched, themes_read |-> {}]

\* PreviewRenderWorker.run line 406
segments_dict(segs) ==
    [k \in 1..Len(segs) |->
        [start |-> segs[k].start, end |-> segs[k].end, text |-> segs[k].text,
         words |-> segs[k].words]]

InitEditor ==
    /\ theme = SubtitleThemeConfig
    /\ widgets = WidgetValues(theme)
    /\ workers = << >>
    /\ preview = 0
    /\ video_size = <<540, 960>>
    /\ segments = << >>
    /\ pc = "idle"
    /\ i = 0
    /\ ass_content = None
    /\ result = None
    /\ calls = << >>
    /\ origin = << >>
    /\ output_file = Untouched
    /\ history = << >>
    /\ NoCall

\* MainWindow._on_transcription_finished: the segments are set and
\* _render_preview starts a worker
OnTranscriptionFinished ==
    /\ segments = << >>
    /\ Len(workers) < MaxWorkers
    /\ segments' \in EditorSegmentLists
    /\ workers' = Append(workers, NewWorker)
    /\ preview' = 0
    /\ UNCHANGED <<theme, widgets, video_size, pc, i, ass_content, result, calls, origin>>
    /\ UNCHANGED <<output_file, history, call, ret>>

\* The user changes one widget: its signal runs _update_theme_setting, which
\* assigns the widget values to the fields of the theme and emits
\* theme_changed; MainWindow._on_theme_changed calls _render_preview, which
\* starts a worker when there are segments (lines 2054-2060, 1953-1977) and
\* unloads the video the player has (line 1963).
UpdateThemeSetting ==
    /\ segments # << >> => Len(workers) < MaxWorkers
    /\ \E wn \in DOMAIN WidgetChoices : \E v \in WidgetChoices[wn] :
          /\ v # widgets[wn]
          /\ widgets' = [widgets EXCEPT ![wn] = v]
    /\ theme' = update_theme_setting(theme, widgets')
    /\ workers' = IF segments # << >> THEN Append(workers, NewWorker) ELSE workers
    /\ preview' = IF segments # << >> THEN 0 ELSE preview
    /\ UNCHANGED <<video_size, segments, pc, i, ass_content, result, calls, origin>>
    /\ UNCHANGED <<output_file, history, call, ret>>

\* every step of a worker leaves all but workers unchanged
WorkerStep(w, new) ==
    /\ workers' = [workers EXCEPT ![w] = new]
    /\ UNCHANGED <<theme, widgets, preview, video_size, segments, pc, i, ass_content, result>>
    /\ UNCHANGED <<calls, origin, output_file, history, call, ret>>

\* run lines 388-428: up to SubtitleRenderer(self.theme, p_width, p_height)
WorkerRun ==
    \E w \in 1..Len(workers) :
        /\ workers[w].pc = "start"
        /\ WorkerStep(w, [workers[w] EXCEPT !.pc = "header", !.i = 1,
                                             !.segments_dict = segments_dict(segments)])

\* render_segments line 256, in the worker
WorkerGenerateAssHeader ==
    \E w \in 1..Len(workers) :
        /\ workers[w].pc = "header"
        /\ LET header == generate_ass_header(theme, video_size[1], video_size[2])
           IN  IF Raised(header)
               THEN WorkerStep(w, [workers[w] EXCEPT !.pc = "error"])
               ELSE WorkerStep(w, [workers[w] EXCEPT
                                       !.pc = "segments",
                                       !.ass_content = [header |-> header, events |-> << >>],
                                       !.themes_read = @ \cup {theme}])

\* render_segments lines 258-264, in the worker: one iteration of the loop,
\* the segment rendered by method, whose lines are lines
WorkerRenderSegment(w, method, lines) ==
    /\ workers[w].pc = "segments"
    /\ workers[w].i <= Len(workers[w].segments_dict)
    /\ select_strategy(theme) = method
    /\ IF RaisedLines(lines)
       THEN WorkerStep(w, [workers[w] EXCEPT !.pc = "error"])
       ELSE WorkerStep(w, [workers[w] EXCEPT
                               !.i = @ + 1,
                               !.ass_content.events = @ \o lines,
                               !.themes_read = @ \cup {theme}])

\* The widgets do not edit background.style: from the default theme, whose
\* style is "single", line 259 never selects the per-word method.
WorkerRenderSegmentKaraoke ==
    \E w \in 1..Len(workers) :
        /\ workers[w].pc = "segments"
        /\ workers[w].i <= Len(workers[w].segments_dict)
        /\ WorkerRenderSegment(w, "render_segment_karaoke",
                render_segment_karaoke(theme, workers[w].segments_dict[workers[w].i]))

WorkerRenderSegmentSimple ==
    \E w \in 1..Len(workers) :
        /\ workers[w].pc = "segments"
        /\ workers[w].i <= Len(workers[w].segments_dict)
        /\ WorkerRenderSegment(w, "render_segment_simple",
                render_segment_simple(theme, workers[w].segments_dict[workers[w].i]))

\* render_segments line 266 and render_to_file lines 281-284, in the worker:
\* the document is returned and written to the worker's own file
WorkerWriteOutput ==
    \E w \in 1..Len(workers) :
        /\ workers[w].pc = "segments"
        /\ workers[w].i > Len(workers[w].segments_dict)
        /\ WorkerStep(w, [workers[w] EXCEPT
                               !.pc = "saved",
                               !.output_file = [opened |-> TRUE, written |-> TRUE,
                                                content |-> workers[w].ass_content]])

\* The text the user gives an edited segment
EditedTexts == {TextOf(<<3>>)}

\* MainWindow._on_subtitle_updated lines 2032-2052: the segment at index is
\* assigned the new text, its words are dropped when the text has changed,
\* and _render_preview starts a worker.  The list is the one the running
\* workers were handed.
OnSubtitleUpdated ==
    /\ Len(workers) < MaxWorkers
    /\ \E index \in 1..Len(segments) : \E text \in EditedTexts :
          /\ text # segments[index].text
          /\ segments' = [segments EXCEPT ![index].text = text, ![index].words = << >>]
    /\ workers' = Append(workers, NewWorker)
    /\ preview' = 0
    /\ UNCHANGED <<theme, widgets, video_size, pc, i, ass_content, result, calls, origin>>
    /\ UNCHANGED <<output_file, history, call, ret>>

\* run line 522 and MainWindow._on_preview_ready lines 1979-1992: the worker
\* whose ffmpeg run has ended emits finished with its preview_path, and the
\* UI thread loads that file into the player
OnPreviewReady ==
    \E w \in 1..Len(workers) :
        /\ workers[w].pc = "saved"
        /\ workers' = [workers EXCEPT ![w].pc = "finished"]
        /\ preview' = w
        /\ UNCHANGED <<theme, widgets, video_size, segments, pc, i, ass_content, result>>
        /\ UNCHANGED <<calls, origin, output_file, history, call, ret>>

NextEditor ==
    \/ OnTranscriptionFinished
    \/ UpdateThemeSetting
    \/ WorkerRun
    \/ WorkerGenerateAssHeader
    \/ WorkerRenderSegmentKaraoke
    \/ WorkerRenderSegmentSimple
    \/ WorkerWriteOutput
    \/ OnSubtitleUpdated
    \/ OnPreviewReady

SpecEditor == InitEditor /\ [][NextEditor]_vars

(***************************************************************************)
(* The functions of effects.py called on their own: Init draws the         *)
(* arguments, the action applies the function.                             *)
(***************************************************************************)
ByteChoices == {<<"0", "0">>, <<"F", "F">>, <<"C", "C">>, <<"8", "a">>, <<"0", "f">>}

HexInputs ==
    {<<"#">> \o r \o g \o b : r \in ByteChoices, g \in ByteChoices, b \in ByteChoices}
    \cup {<<"#">> \o r \o g \o b \o a :
             r \in ByteChoices, g \in ByteChoices, b \in ByteChoices, a \in ByteChoices}
    \cup {<< >>, <<"#">>, <<"#", "F", "F", "F">>, <<"F", "F", "0", "0", "8", "8">>,
          <<"#", "#", "F", "F", "0", "0", "8", "8">>, <<"#", "G", "G", "0", "0", "8", "8">>,
          <<"#", "F", "F", "0", "0", "8", "8", "C">>,
          <<"#", "F", "F", "0", "0", "8", "8", "C", "C", "0">>,
          <<"F", "F", "0", "0", "8">>, <<"#", "#", "#">>,
          <<"#", "#", "#", "F", "F", "0", "0", "8", "8", "C", "C">>}

InitColor ==
    /\ NoRender
    /\ call \in {[fn |-> "hex_to_ass_color", hex_color |-> h] : h \in HexInputs}
    /\ ret = [done |-> FALSE]

CallHexToAssColor ==
    /\ call.fn = "hex_to_ass_color"
    /\ ~ret.done
    /\ ret' = [done |-> TRUE, value |-> hex_to_ass_color(call.hex_color)]
    /\ UNCHANGED <<render_vars, call>>

SpecColor == InitColor /\ [][CallHexToAssColor]_vars

InitChunk ==
    /\ NoRender
    /\ call \in {[fn |-> "chunk_words", words |-> ws, max_words |-> mw] :
                    ws \in Seqs({"x", "y"}, MaxChunkInput), mw \in (-1)..(MaxWordsPerLine + 1)}
    /\ ret = [done |-> FALSE]

CallChunkWords ==
    /\ call.fn = "chunk_words"
    /\ ~ret.done
    /\ ret' = [done |-> TRUE, value |-> chunk_words(call.words, call.max_words)]
    /\ UNCHANGED <<render_vars, call>>

SpecChunk == InitChunk /\ [][CallChunkWords]_vars

TimePoints == {T(0), T(10), T(14), T(20), T(30), T(100)}

\* 2^53 and 2^53 + 2: times at which one second is less than the float spacing
BigTime == FMul(FromInt(2 ^ 27), FromInt(2 ^ 26))

Intervals ==
    {<<a, b>> \in TimePoints \X TimePoints : FLeq(a, b)}
    \cup {<<BigTime, FAdd(BigTime, FromInt(2))>>}

Texts ==
    {TextOf(ls) : ls \in Seqs(1..MaxWordLen, MaxTextWords)}
    \cup {<<" ", " ">>, <<" ", "a", "\t", " ", "a", "a", " ">>}

WordsChoices ==
    { << >>,
      <<W(<<" ">>, 0, 10)>>,
      <<W(<<" ", "\t">>, 0, 10), W(<< >>, 10, 20)>>,
      <<W(<<"h", "i", " ">>, 14, 16), W(<<" ">>, 16, 16), W(<<" ", "t", "h", "e", "r", "e">>, 16, 20)>>,
      <<W(<<"a">>, 0, 10), W(<<"b", "c">>, 10, 30)>>,
      <<W(<<" ">>, 0, 0), W(<<"b">>, 50, 40), W(<<"a", " ">>, 20, 30)>> }

TimingSegments ==
    {[start |-> iv[1], end |-> iv[2], text |-> t] : iv \in Intervals, t \in Texts}
    \cup {[start |-> iv[1], end |-> iv[2], text |-> t, words |-> ws] :
             iv \in {<<T(0), T(30)>>, <<T(14), T(20)>>, <<T(20), T(20)>>},
             t \in {<< >>, TextOf(<<1>>), TextOf(<<2, 4>>), <<" ", "a", " ", "a", " ">>},
             ws \in WordsChoices}

InitTimings ==
    /\ NoRender
    /\ call \in {[fn |-> "calculate_word_timings", segment |-> sg] : sg \in TimingSegments}
    /\ ret = [done |-> FALSE]

CallCalculateWordTimings ==
    /\ call.fn = "calculate_word_timings"
    /\ ~ret.done
    /\ ret' = [done |-> TRUE, value |-> calculate_word_timings(call.segment)]
    /\ UNCHANGED <<render_vars, call>>

SpecTimings == InitTimings /\ [][CallCalculateWordTimings]_vars

EffectNames == Catalog \cup {"zoom", "", "Fade", "none "}

Durations == {-1, 0, 1, 200, 300}

TotalDurations == {0, 100, 1000}

InitEffects ==
    /\ NoRender
    /\ call \in {[fn |-> "get_entry_effect", effect_name |-> n, duration |-> d] :
                    n \in EffectNames, d \in Durations}
               \cup {[fn |-> "get_exit_effect", effect_name |-> n, duration |-> d,
                      total_duration |-> t] :
                       n \in EffectNames, d \in Durations, t \in TotalDurations}
    /\ ret = [done |-> FALSE]

CallGetEntryEffect ==
    /\ call.fn = "get_entry_effect"
    /\ ~ret.done
    /\ ret' = [done |-> TRUE, value |-> get_entry_effect(call.effect_name, call.duration)]
    /\ UNCHANGED <<render_vars, call>>

CallGetExitEffect ==
    /\ call.fn = "get_exit_effect"
    /\ ~ret.done
    /\ ret' = [done |-> TRUE,
               value |-> get_exit_effect(call.effect_name, call.duration, call.total_duration)]
    /\ UNCHANGED <<render_vars, call>>

NextEffects ==
    \/ CallGetEntryEffect
    \/ CallGetExitEffect

SpecEffects == InitEffects /\ [][NextEffects]_vars

(***************************************************************************)
(* from_dict and to_dict called on their own                               *)
(***************************************************************************)
\* a theme none of whose fields has its default value
CustomTheme ==
    [name |-> "neon", version |-> "2.1",
     font |-> [family |-> "Impact", size |-> 48, weight |-> "normal", style |-> "italic"],
     colors |-> [primary |-> <<"#", "0", "f", "0", "f", "0", "f">>,
                 highlight |-> <<"#", "F", "F", "0", "0", "8", "a", "C", "C">>,
                 background |-> <<"#", "1", "1", "1", "1", "1", "1">>,
                 outline |-> <<"#", "2", "2", "2", "2", "2", "2", "F", "F">>,
                 shadow |-> <<"#", "3", "3", "3", "3", "3", "3">>],
     highlight |-> [enabled |-> FALSE, mode |-> "character", style |-> "glow",
                    transition |-> "fade"],
     layout |-> [position |-> "custom", custom_y |-> <<Dec(255, 10)>>,
                 max_words_per_line |-> 3, alignment |-> "left", margin_x |-> 10,
                 margin_y |-> 20],
     background |-> [enabled |-> FALSE, style |-> "per_word", padding |-> 5,
                     border_radius |-> 0, opacity |-> Dec(5, 10)],
     effects |-> [outline |-> [enabled |-> FALSE, width |-> 1],
                  shadow |-> [enabled |-> TRUE, offset_x |-> 2, offset_y |-> 3, blur |-> 0]],
     animation |-> [entry |-> "bounce", exit |-> "none", duration |-> 350,
                    word_stagger |-> 0]]

\* the dict d restricted to the keys K
Sub(d, K) == [k \in K |-> d[k]]

FlatSections == SectionNames \ {"effects"}

OutlineDocs == {Sub(CustomTheme.effects.outline, K) : K \in SUBSET {"enabled", "width"}}

ShadowDocs ==
    {Sub(CustomTheme.effects.shadow, K) : K \in SUBSET {"enabled", "offset_x", "offset_y", "blur"}}

EffectsDocs ==
    {<< >>}
    \cup {[outline |-> o] : o \in OutlineDocs}
    \cup {[shadow |-> sh] : sh \in ShadowDocs}
    \cup {[outline |-> o, shadow |-> sh] : o \in OutlineDocs, sh \in ShadowDocs}

Documents ==
    {NoneValue}
    \cup {Sub(to_dict(CustomTheme), K) : K \in SUBSET (SectionNames \cup {"name", "version"})}
    \cup UNION {{[x \in {sec} |-> Sub(CustomTheme[sec], K)] : K \in SUBSET DOMAIN CustomTheme[sec]} :
                  sec \in FlatSections}
    \cup {[effects |-> e] : e \in EffectsDocs}
    \cup {[layout |-> [position |-> "custom", custom_y |-> << >>]]}
    \cup {[x \in {sec} |-> NoneValue] : sec \in SectionNames}
    \cup {[effects |-> [outline |-> NoneValue]],
          [effects |-> [outline |-> [width |-> 1], shadow |-> NoneValue]]}

\* the default theme, the themes that differ from it in one section, and
\* the theme that differs in every field
ThemeValues ==
    {SubtitleThemeConfig, CustomTheme}
    \cup {[SubtitleThemeConfig EXCEPT ![sec] = CustomTheme[sec]] : sec \in SectionNames}
    \cup UNION {{[SubtitleThemeConfig EXCEPT ![sec][f] = CustomTheme[sec][f]] :
                     f \in DOMAIN CustomTheme[sec]} : sec \in FlatSections}
    \cup {[CustomTheme EXCEPT !.layout.custom_y = << >>]}

InitThemeConfig ==
    /\ NoRender
    /\ call \in {[fn |-> "from_dict", data |-> d] : d \in Documents}
               \cup {[fn |-> "to_dict", self |-> t] : t \in ThemeValues}
    /\ ret = [done |-> FALSE]

CallFromDict ==
    /\ call.fn = "from_dict"
    /\ ~ret.done
    /\ ret' = [done |-> TRUE, value |-> from_dict(call.data)]
    /\ UNCHANGED <<render_vars, call>>

CallToDict ==
    /\ call.fn = "to_dict"
    /\ ~ret.done
    /\ ret' = [done |-> TRUE, value |-> to_dict(call.self)]
    /\ UNCHANGED <<render_vars, call>>

\* from_dict(t.to_dict()): the dict to_dict returned is handed to from_dict;
\* self keeps the theme it came from
CallFromDictOfToDict ==
    /\ call.fn = "to_dict"
    /\ ret.done
    /\ call' = [fn |-> "from_dict", data |-> ret.value, self |-> call.self]
    /\ ret' = [done |-> FALSE]
    /\ UNCHANGED render_vars

NextThemeConfig ==
    \/ CallFromDict
    \/ CallToDict
    \/ CallFromDictOfToDict

SpecThemeConfig == InitThemeConfig /\ [][NextThemeConfig]_vars

(***************************************************************************)
(* Properties                                                              *)
(***************************************************************************)
Rendering == pc \in {"segments", "done"}

Returned(fn) == call.fn = fn /\ ret.done

WordLevel == {"render_segment_karaoke", "render_segment_per_word_background"}

\* C1: render_segments dispatches every segment to exactly one of the three
\* methods, chosen from theme flags alone: per-word-background when
\* background.style is "per_word" (whatever background.enabled and
\* highlight.enabled are), else karaoke when highlight.enabled, else plain;
\* so all segments of one call get the same method.
C1_StrategyFromThemeFlags ==
    Rendering =>
        /\ Len(calls) = i - 1
        /\ \A k \in 1..Len(calls) :
              calls[k] = IF theme.background.style = "per_word"
                         THEN "render_segment_per_word_background"
                         ELSE IF theme.highlight.enabled THEN "render_segment_karaoke"
                         ELSE "render_segment_simple"

C1_Witness ==
    /\ pc = "done"
    /\ Len(calls) = 2
    /\ theme.background.style = "per_word"
    /\ ~theme.background.enabled
    /\ ~theme.highlight.enabled
    /\ calls[1] = "render_segment_per_word_background"

NoUsableWords(ws) == \A k \in 1..Len(ws) : Strip(ws[k].word) = << >>

WithoutWords(segment) == [start |-> segment.start, end |-> segment.end, text |-> segment.text]

\* C2: when segment.words is present but empty, or every entry's word trims
\* to the empty string, calculate_word_timings returns the estimate made from
\* the text (what it returns when the words key is absent), and an empty
\* sequence only when the text has no words.
C2_FallsBackToText ==
    (/\ Returned("calculate_word_timings")
     /\ "words" \in DOMAIN call.segment
     /\ NoUsableWords(call.segment.words))
        => /\ ret.value = calculate_word_timings(WithoutWords(call.segment))
           /\ ret.value = << >> => Split(call.segment.text) = << >>

\* the indices of the entries of ws whose trimmed word is not empty, in order
KeptIndices(ws) ==
    LET Usable(k) == Strip(ws[k].word) # << >>
    IN  SelectSeq([k \in 1..Len(ws) |-> k], Usable)

\* C3: when segment.words has an entry whose trimmed word is not empty,
\* calculate_word_timings returns exactly those entries, in their order, each
\* with the trimmed word and its start and end unchanged, and segment.text,
\* segment.start and segment.end do not influence the result.
C3_SuppliedTimingsPassThrough ==
    (/\ Returned("calculate_word_timings")
     /\ "words" \in DOMAIN call.segment
     /\ ~NoUsableWords(call.segment.words))
        => LET ws   == call.segment.words
               kept == KeptIndices(ws)
           IN  /\ Len(ret.value) = Len(kept)
               /\ \A k \in 1..Len(kept) :
                     ret.value[k] = [word  |-> Strip(ws[kept[k]].word),
                                     start |-> ws[kept[k]].start,
                                     end   |-> ws[kept[k]].end]
               /\ \A iv \in Intervals, t \in Texts :
                     calculate_word_timings([start |-> iv[1], end |-> iv[2], text |-> t,
                                             words |-> ws]) = ret.value

C3_Witness ==
    /\ Returned("calculate_word_timings")
    /\ "words" \in DOMAIN call.segment
    /\ Len(call.segment.words) = 3
    /\ Len(ret.value) = 2
    /\ ret.value[1].word = <<"h", "i">>
    /\ ret.value[2].word = <<"t", "h", "e", "r", "e">>

RECURSIVE Flatten(_)
Flatten(ss) == IF ss = << >> THEN << >> ELSE Head(ss) \o Flatten(Tail(ss))

\* C4: for maxWords >= 1, chunk_words returns a partition of the input into
\* consecutive runs: the chunks concatenated give back the input, no chunk is
\* empty, every chunk but the last has exactly maxWords entries, the last has
\* between 1 and maxWords, and an empty input yields an empty output.
C4_ChunksPartitionInput ==
    (Returned("chunk_words") /\ call.max_words >= 1)
        => LET chunks == ret.value
               n      == Len(chunks)
           IN  /\ Flatten(chunks) = call.words
               /\ \A k \in 1..n : chunks[k] # << >>
               /\ \A k \in 1..(n - 1) : Len(chunks[k]) = call.max_words
               /\ n > 0 => Len(chunks[n]) \in 1..call.max_words
               /\ call.words = << >> => chunks = << >>

C4_Witness ==
    /\ Returned("chunk_words")
    /\ call.max_words = 2
    /\ Len(call.words) = 5
    /\ Len(ret.value) = 3
    /\ Len(ret.value[3]) = 1

\* C5: the start and end fields of every Dialogue line are the start of the
\* chunk's first word and the end of the chunk's last word when the line was
\* written by the karaoke or the per-word-background method, and the
\* segment's own start and end when it was written by the plain method.
C5_EventTimes ==
    Rendering =>
        \A k \in 1..Len(ass_content.events) :
            LET ev      == ass_content.events[k]
                segment == segments[origin[k].segment]
            IN  IF origin[k].method \in WordLevel
                THEN LET chunk == chunk_words(calculate_word_timings(segment),
                                              theme.layout.max_words_per_line)[origin[k].chunk]
                     IN  /\ ev.start = format_time_ass(chunk[1].start)
                         /\ ev.end = format_time_ass(chunk[Len(chunk)].end)
                ELSE /\ ev.start = format_time_ass(segment.start)
                     /\ ev.end = format_time_ass(segment.end)

\* a karaoke line of a two-word chunk whose times differ from the segment's
C5_Witness ==
    /\ pc = "done"
    /\ \E k \in 1..Len(ass_content.events) :
          /\ origin[k].method = "render_segment_karaoke"
          /\ Len(ass_content.events[k].parts) = 2
          /\ ass_content.events[k].start # format_time_ass(segments[origin[k].segment].start)
          /\ ass_content.events[k].end # format_time_ass(segments[origin[k].segment].end)
    /\ \E k \in 1..Len(ass_content.events) : origin[k].method = "render_segment_simple"

DigitVal(c) == (CHOOSE j \in 1..10 : DigitChars[j] = c) - 1

RECURSIVE CharsToInt(_)
CharsToInt(cs) ==
    IF cs = << >> THEN 0 ELSE 10 * CharsToInt(SubSeq(cs, 1, Len(cs) - 1)) + DigitVal(cs[Len(cs)])

IndexOf(cs, c) == CHOOSE j \in 1..Len(cs) : cs[j] = c /\ \A k \in 1..(j - 1) : cs[k] # c

\* the centiseconds a time field H:MM:SS.cc stands for
TimeCs(t) ==
    LET p    == IndexOf(t, ":")
        rest == SubSeq(t, p + 1, Len(t))
        q    == IndexOf(rest, ":")
        tail == SubSeq(rest, q + 1, Len(rest))
        d    == IndexOf(tail, ".")
    IN  360000 * CharsToInt(SubSeq(t, 1, p - 1)) + 6000 * CharsToInt(SubSeq(rest, 1, q - 1))
        + 100 * CharsToInt(SubSeq(tail, 1, d - 1)) + CharsToInt(SubSeq(tail, d + 1, Len(tail)))

OrderedSegments(segs) ==
    \A j \in 1..Len(segs) :
        /\ FLeq(segs[j].start, segs[j].end)
        /\ j < Len(segs) => FLeq(segs[j].end, segs[j + 1].start)

\* the supplied word timestamps are ordered and lie inside the segment
WordsInside(segment) ==
    "words" \in DOMAIN segment =>
        \A k \in 1..Len(segment.words) :
            LET w == segment.words[k]
            IN  /\ FLeq(segment.start, w.start)
                /\ FLeq(w.start, w.end)
                /\ FLeq(w.end, segment.end)
                /\ k < Len(segment.words) => FLeq(w.end, segment.words[k + 1].start)

EventsInOrder ==
    \A k \in 1..(Len(ass_content.events) - 1) :
        /\ origin[k].segment <= origin[k + 1].segment
        /\ TimeCs(ass_content.events[k].start) <= TimeCs(ass_content.events[k + 1].start)

\* C6 as stated: for every ordered, non-overlapping segment list, with or
\* without supplied word timestamps, the Dialogue lines are in segment order
\* and their start times are non-decreasing.
C6_OrderedSegmentsGiveOrderedEvents ==
    (Rendering /\ OrderedSegments(segments)) => EventsInOrder

\* C6 amended: the same, for segment lists whose supplied word timestamps
\* are themselves ordered and lie inside their segment.
C6_OrderedWordsGiveOrderedEvents ==
    (/\ Rendering
     /\ OrderedSegments(segments)
     /\ \A j \in 1..Len(segments) : WordsInside(segments[j])) => EventsInOrder

C6_Witness ==
    /\ pc = "done"
    /\ OrderedSegments(segments)
    /\ \A j \in 1..Len(segments) : WordsInside(segments[j])
    /\ Len(segments) = 2
    /\ "words" \notin DOMAIN segments[1]
    /\ "words" \in DOMAIN segments[2]
    /\ Len(ass_content.events) = 4
    /\ \A k \in 1..4 : origin[k].method = "render_segment_karaoke"
    /\ TimeCs(ass_content.events[2].start) < TimeCs(ass_content.events[3].start)

\* the timings were estimated from a text that has words
Estimated(segment) == "words" \notin DOMAIN segment /\ Split(Strip(segment.text)) # << >>

Tiles(r, segment) ==
    /\ r[1].start = segment.start
    /\ \A k \in 1..(Len(r) - 1) : r[k + 1].start = r[k].end

\* |a - b| <= n * 2^e * max(|x|, |y|), in exact arithmetic
Within(a, b, n, e, x, y) ==
    DLeq(DAbs(DSub(a, b)), DMul(Dy(FALSE, BFromInt(n), e), DMax(DAbs(x), DAbs(y))))

\* C7 as stated: the estimated timings tile the segment interval: the first
\* word starts at segment.start, every later word starts exactly where the
\* previous word ends, and the last word ends at segment.end.
C7_TimingsTileExactly ==
    (Returned("calculate_word_timings") /\ Estimated(call.segment))
        => /\ Tiles(ret.value, call.segment)
           /\ ret.value[Len(ret.value)].end = call.segment.end

\* C7 amended: the first word starts at segment.start, every later word
\* starts exactly where the previous word ends, and the last of n words ends
\* at segment.end up to the rounding of the float operations: within
\* (n + 4) * 2^-53 * max(|segment.start|, |segment.end|) of it.
C7_TimingsTileUpToRounding ==
    (Returned("calculate_word_timings") /\ Estimated(call.segment))
        => /\ Tiles(ret.value, call.segment)
           /\ Within(ret.value[Len(ret.value)].end, call.segment.end,
                     Len(ret.value) + 4, -53, call.segment.start, call.segment.end)

\* two words whose estimated durations do not add up to the segment's
C7_Witness ==
    /\ Returned("calculate_word_timings")
    /\ Estimated(call.segment)
    /\ Len(ret.value) = 2
    /\ ret.value[2].start = ret.value[1].end
    /\ ret.value[2].end # call.segment.end
    /\ call.segment.end = T(30)

RECURSIVE TotalChars(_)
TotalChars(r) == IF r = << >> THEN 0 ELSE Len(Head(r).word) + TotalChars(Tail(r))

\* len(word) / totalChars * (segment.end - segment.start), as a float expression
Share(word, r, segment) ==
    FMul(IntTrueDiv(Len(word), TotalChars(r)), FSub(segment.end, segment.start))

\* C8: each estimated word lasts len(word) / totalChars * (segment.end -
\* segment.start), totalChars being the summed length of the words of the
\* text: every word ends that long after it starts.
C8_DurationProportionalToLength ==
    (Returned("calculate_word_timings") /\ Estimated(call.segment))
        => LET r == ret.value
           IN  /\ Len(r) = Len(Split(call.segment.text))
               /\ \A k \in 1..Len(r) :
                     /\ r[k].word = Split(call.segment.text)[k]
                     /\ r[k].end = FAdd(r[k].start, Share(r[k].word, r, call.segment))

\* "ab abcd" over 0..10: the first word lasts 2/6 of 10 seconds, the second 4/6
C8_Witness ==
    /\ Returned("calculate_word_timings")
    /\ call.segment = [start |-> T(0), end |-> T(100), text |-> TextOf(<<2, 4>>)]
    /\ ret.value[1].end = FMul(IntTrueDiv(2, 6), FromInt(10))
    /\ ret.value[2].end = FAdd(ret.value[1].end, FMul(IntTrueDiv(4, 6), FromInt(10)))

StartsIncrease(r) == \A k \in 1..(Len(r) - 1) : FLess(r[k].start, r[k + 1].start)

\* C9 as stated: for a segment with end >= start, no word timestamps and at
\* least two words, the estimated start times are strictly increasing.
C9_StartsStrictlyIncrease ==
    (/\ Returned("calculate_word_timings")
     /\ Estimated(call.segment)
     /\ FLeq(call.segment.start, call.segment.end)
     /\ Len(ret.value) >= 2) => StartsIncrease(ret.value)

\* every word's estimated duration is at least 2^-51 * max(|start|, |end|),
\* the size below which adding it to a time can be lost to rounding
NotAbsorbed(r, segment) ==
    \A k \in 1..Len(r) :
        DLeq(DMul(Dy(FALSE, <<1>>, -51), DMax(DAbs(segment.start), DAbs(segment.end))),
             Share(r[k].word, r, segment))

\* C9 amended: for such a segment the start times are non-decreasing, and
\* they are strictly increasing when end > start and no word's duration is
\* small enough to be absorbed by rounding.
C9_StartsIncreaseWhenDurationPositive ==
    (/\ Returned("calculate_word_timings")
     /\ Estimated(call.segment)
     /\ FLeq(call.segment.start, call.segment.end)
     /\ Len(ret.value) >= 2)
        => /\ \A k \in 1..(Len(ret.value) - 1) : FLeq(ret.value[k].start, ret.value[k + 1].start)
           /\ (FLess(call.segment.start, call.segment.end) /\ NotAbsorbed(ret.value, call.segment))
                 => StartsIncrease(ret.value)

C9_Witness ==
    /\ Returned("calculate_word_timings")
    /\ Estimated(call.segment)
    /\ call.segment.start = T(14)
    /\ call.segment.end = T(20)
    /\ NotAbsorbed(ret.value, call.segment)
    /\ Len(ret.value) = 3
    /\ FLess(ret.value[1].start, ret.value[2].start)
    /\ FLess(ret.value[2].start, ret.value[3].start)

ValidColor(h) ==
    /\ Len(h) \in {7, 9}
    /\ h[1] = "#"
    /\ \A j \in 2..Len(h) : HexVal(h[j]) >= 0

IsUpperHex(c) == \E j \in 1..16 : UpperHex[j] = c

\* C10: for a valid colour #RRGGBB or #RRGGBBAA, hex_to_ass_color returns &H
\* and four two-digit uppercase hex bytes alpha, blue, green, red: blue, green
\* and red are the input channels, alpha is 00 for the 6-digit form and
\* 255 - inputAlpha for the 8-digit form.
C10_ColorTokenLayout ==
    (Returned("hex_to_ass_color") /\ ValidColor(call.hex_color))
        => LET h == call.hex_color
               t == ret.value
           IN  /\ Len(t) = 10
               /\ t[1] = "&" /\ t[2] = "H"
               /\ \A j \in 3..10 : IsUpperHex(t[j])
               /\ IntHex2(SubSeq(t, 5, 6)) = IntHex2(SubSeq(h, 6, 7))
               /\ IntHex2(SubSeq(t, 7, 8)) = IntHex2(SubSeq(h, 4, 5))
               /\ IntHex2(SubSeq(t, 9, 10)) = IntHex2(SubSeq(h, 2, 3))
               /\ IF Len(h) = 7 THEN SubSeq(t, 3, 4) = <<"0", "0">>
                  ELSE IntHex2(SubSeq(t, 3, 4)) = 255 - IntHex2(SubSeq(h, 8, 9))

\* input alpha CC gives 33; lower-case digits come out upper-case
C10_Witness ==
    /\ Returned("hex_to_ass_color")
    /\ call.hex_color = <<"#", "F", "F", "0", "0", "8", "a", "C", "C">>
    /\ ret.value = <<"&", "H", "3", "3", "8", "A", "0", "0", "F", "F">>

\* the text after one leading "#", the whole text when there is none
AfterLeadingHash(h) == IF h # << >> /\ Head(h) = "#" THEN Tail(h) ELSE h

\* C11: hex_to_ass_color raises the invalid-colour error, and
\* returns no token, for every input whose text after the leading "#" has a
\* length other than 6 or 8.
C11_WrongLengthFails ==
    (Returned("hex_to_ass_color") /\ Len(AfterLeadingHash(call.hex_color)) \notin {6, 8})
        => ret.value = ColorError

\* C15: get_entry_effect and get_exit_effect return the empty fragment for
\* the name "none" and for every name that is not in the catalog, whatever
\* the duration and the total duration are; they have no failing path.
C15_UnknownEffectIsEmpty ==
    ((Returned("get_entry_effect") \/ Returned("get_exit_effect"))
        /\ (call.effect_name = "none" \/ call.effect_name \notin Catalog))
        => ret.value = << >>

C15_Witness ==
    /\ Returned("get_entry_effect")
    /\ call.effect_name = "zoom"
    /\ call.duration = 200
    /\ ret.value = << >>

\* C16: chunk_words called with max_words < 1 fails instead of returning
\* chunks.
C16_NonPositiveMaxWordsFails ==
    (Returned("chunk_words") /\ call.max_words < 1) => "value" \notin DOMAIN ret

\* every section of the document, and outline and shadow of its effects
\* section, is a dict
WellFormed(data) == IsNone(data) \/ ~GetOnNone(data)

\* the value the document gives the field f of section sec, if it gives one
Given(data, sec, f) == ~IsNone(data) /\ sec \in DOMAIN data /\ f \in DOMAIN data[sec]

GivenEffect(data, e, f) ==
    /\ ~IsNone(data)
    /\ "effects" \in DOMAIN data
    /\ e \in DOMAIN data.effects
    /\ f \in DOMAIN data.effects[e]

\* C17: from_dict overrides exactly the fields whose keys are present in the
\* document and leaves every other field at its default: name and version,
\* every field of every section (absent section, or absent key of a present
\* section), and every field of outline and shadow of the effects section;
\* a None document gives the default theme.
C17_FromDictMergesOverDefaults ==
    (Returned("from_dict") /\ WellFormed(call.data)) =>
        LET data == call.data
            t == ret.value
            d == SubtitleThemeConfig
        IN  /\ \A f \in {"name", "version"} :
                  t[f] = IF ~IsNone(data) /\ f \in DOMAIN data THEN data[f] ELSE d[f]
            /\ \A sec \in FlatSections :
                  /\ DOMAIN t[sec] = DOMAIN d[sec]
                  /\ \A f \in DOMAIN d[sec] :
                        t[sec][f] = IF Given(data, sec, f) THEN data[sec][f] ELSE d[sec][f]
            /\ \A e \in {"outline", "shadow"} :
                  /\ DOMAIN t.effects[e] = DOMAIN d.effects[e]
                  /\ \A f \in DOMAIN d.effects[e] :
                        t.effects[e][f] = IF GivenEffect(data, e, f) THEN data.effects[e][f]
                                          ELSE d.effects[e][f]
            /\ IsNone(data) => t = d

\* an effects section that gives only the outline width
C17_Witness ==
    /\ Returned("from_dict")
    /\ call.data = [effects |-> [outline |-> [width |-> 1]]]
    /\ ret.value.effects.outline = [enabled |-> TRUE, width |-> 1]
    /\ ret.value.effects.shadow = ShadowEffect
    /\ ret.value.colors = ColorConfig

\* C18: from_dict(t.to_dict()) equals t field for field, for the default
\* theme and every other theme value, and to_dict emits name, version and
\* every field of every section.
C18_ToDictFromDictRoundTrip ==
    /\ (Returned("from_dict") /\ "self" \in DOMAIN call) => ret.value = call.self
    /\ Returned("to_dict") =>
           /\ DOMAIN ret.value = DOMAIN SubtitleThemeConfig
           /\ \A sec \in SectionNames : DOMAIN ret.value[sec] = DOMAIN SubtitleThemeConfig[sec]
           /\ \A e \in {"outline", "shadow"} :
                 DOMAIN ret.value.effects[e] = DOMAIN EffectsConfig[e]

C18_Witness ==
    /\ Returned("from_dict")
    /\ "self" \in DOMAIN call
    /\ call.self = CustomTheme
    /\ ret.value = CustomTheme

\* a colour string that is not "#" and six or eight hex digits
Malformed(c) ==
    \/ Len(AfterLeadingHash(c)) \notin {6, 8}
    \/ \E j \in 1..Len(AfterLeadingHash(c)) : HexVal(AfterLeadingHash(c)[j]) < 0

\* C12: a malformed colour string in any of the five colour fields of the
\* theme makes the render call fail with the invalid-colour error: the call
\* never gets past the header, for every strategy and every segment list.
C12_MalformedColourFailsRender ==
    (\E f \in ColorFields : Malformed(theme.colors[f]))
        => /\ pc \in {"header", "raised"}
           /\ pc = "raised" => result = ValueError

\* C13: when a render fails with a colour-format error, render_segments
\* returns no document and render_to_file has neither opened nor written the
\* output file; the file is opened only once the whole document is built,
\* and what is written is that document.
C13_NoPartialDocument ==
    /\ pc = "raised" => (result = ValueError /\ output_file = Untouched)
    /\ output_file.opened =>
          /\ pc \in {"opened", "saved"}
          /\ Len(calls) = Len(segments)
          /\ result = ass_content
    /\ pc = "saved" => (output_file.written /\ output_file.content = ass_content)

C13_Witness ==
    /\ pc = "raised"
    /\ theme.colors.outline = <<"#", "F", "F", "F">>
    /\ Len(segments) = 2
    /\ result = ValueError
    /\ output_file = Untouched

InDocument == pc \in {"segments", "done", "opened", "saved"}

UnknownName(t) == t.animation.entry \notin Catalog \/ t.animation.exit \notin Catalog

\* the theme with name in place of the animation names outside the catalog
KnownAs(t, name) ==
    [t EXCEPT !.animation.entry = IF @ \in Catalog THEN @ ELSE name,
              !.animation.exit = IF @ \in Catalog THEN @ ELSE name]

\* the Dialogue line the theme t gives for the chunk an event came from
LineOf(t, o) ==
    LET segment == segments[o.segment]
        lines == IF select_strategy(t) = "render_segment_per_word_background"
                 THEN render_segment_per_word_background(t, segment)
                 ELSE IF select_strategy(t) = "render_segment_karaoke"
                 THEN render_segment_karaoke(t, segment)
                 ELSE render_segment_simple(t, segment)
    IN  lines[o.chunk]

\* C14 as stated: under every strategy an animation entry or exit name
\* outside the catalog is a no-op: the render does not fail and every event
\* is the event the same theme gives with "none" in place of that name.
C14_UnknownAnimationIsNoOp ==
    UnknownName(theme) =>
        /\ pc # "raised"
        /\ InDocument =>
              \A k \in 1..Len(ass_content.events) :
                  ass_content.events[k] = LineOf(KnownAs(theme, "none"), origin[k])

\* C14 amended: the render does not fail; the events written by the plain
\* and the karaoke method are the events the theme gives with "none" in
\* place of the unknown name, and the events written by the per-word method
\* are the events it gives with "fade" in place of it (the per-word method
\* adds its fade tag for every name other than "none").
C14_UnknownAnimationIsNoOpOrFade ==
    UnknownName(theme) =>
        /\ pc # "raised"
        /\ InDocument =>
              \A k \in 1..Len(ass_content.events) :
                  ass_content.events[k] =
                      LineOf(KnownAs(theme, IF origin[k].method = "render_segment_per_word_background"
                                            THEN "fade" ELSE "none"),
                             origin[k])

\* a karaoke event without tags and a per-word event with the fade, both
\* for the entry name "zoom"
C14_Witness ==
    /\ pc = "saved"
    /\ theme.animation.entry = "zoom"
    /\ theme.animation.exit = "none"
    /\ Len(ass_content.events) > 0
    /\ \/ /\ origin[1].method = "render_segment_karaoke"
          /\ ass_content.events[1].preamble = << >>
       \/ /\ origin[1].method = "render_segment_per_word_background"
          /\ ass_content.events[1].preamble = <<Tag("fad", <<200, 0>>)>>

\* the render_segments calls that have returned
Completed == {history[k] : k \in 1..Len(history)} \cup (IF pc = "done" THEN {ThisCall} ELSE {})

C20_OneThemePerDocument ==
    \A w \in 1..Len(workers) :
        \A a \in workers[w].themes_read : \A b \in workers[w].themes_read : a = b

(***************************************************************************)
(* get_alignment_code called with recognized and unrecognized names.       *)
(***************************************************************************)
PositionNames == {"bottom", "center", "top", "custom", "", "Top", "middle", "left", "bottom "}

AlignNames == {"left", "center", "right", "", "Center", "justify", "top", "right "}

InitAlignment ==
    /\ NoRender
    /\ call \in {[fn |-> "get_alignment_code", position |-> p, align |-> a] :
                    p \in PositionNames, a \in AlignNames}
    /\ ret = [done |-> FALSE]

CallGetAlignmentCode ==
    /\ call.fn = "get_alignment_code"
    /\ ~ret.done
    /\ ret' = [done |-> TRUE, value |-> get_alignment_code(call.position, call.align)]
    /\ UNCHANGED <<render_vars, call>>

SpecAlignment == InitAlignment /\ [][CallGetAlignmentCode]_vars

\* the numpad row and column the documentation of get_alignment_code gives
BaseOf(position) ==
    IF position = "center" THEN 4 ELSE IF position = "top" THEN 7 ELSE 1

OffsetOf(align) ==
    IF align = "left" THEN 0 ELSE IF align = "right" THEN 2 ELSE 1

\* C24: get_alignment_code(position, align) is base + offset, with bases
\* bottom 1, center 4, top 7, custom 1 and offsets left 0, center 1, right 2;
\* an unrecognized position counts as base 1 and an unrecognized alignment
\* as offset 1; the result lies in 1..9.
C24_AlignmentCode ==
    Returned("get_alignment_code") =>
        /\ ret.value = BaseOf(call.position) + OffsetOf(call.align)
        /\ ret.value \in 1..9

C24_Witness ==
    /\ Returned("get_alignment_code")
    /\ call.position = "custom"
    /\ call.align = "justify"
    /\ ret.value = 2

(***************************************************************************)
(* format_time_ass called with the float of a decimal time n/den seconds.  *)
(***************************************************************************)
MaxCentiseconds == 150

\* whole centiseconds up to MaxCentiseconds, the field boundaries, and
\* times with a finer fraction
TimeInputs ==
    {<<n, 100>> : n \in 0..MaxCentiseconds}
    \cup {<<n, 100>> : n \in {5999, 6000, 359999, 360000, 36000000, 36006101}}
    \cup {<<n, 1000>> : n \in {1, 9, 1234, 1239, 1999, 59999, 3599999}}

InitTime ==
    /\ NoRender
    /\ call \in {[fn |-> "format_time_ass", n |-> t[1], den |-> t[2]] : t \in TimeInputs}
    /\ ret = [done |-> FALSE]

CallFormatTimeAss ==
    /\ call.fn = "format_time_ass"
    /\ ~ret.done
    /\ ret' = [done |-> TRUE, value |-> format_time_ass(Dec(call.n, call.den))]
    /\ UNCHANGED <<render_vars, call>>

SpecTime == InitTime /\ [][CallFormatTimeAss]_vars

\* the whole centiseconds of n/den seconds
CentisecondsOf(n, den) == (n \div den) * 100 + ((n % den) * 100) \div den

IsDigits(cs) == \A k \in 1..Len(cs) : \E j \in 1..10 : DigitChars[j] = cs[k]

\* t is H:MM:SS.cc: digits for H, two digits in each of the other fields
TimeLayout(t) ==
    LET n == Len(t)
    IN  /\ n >= 10
        /\ t[n - 2] = "." /\ t[n - 5] = ":" /\ t[n - 8] = ":"
        /\ IsDigits(SubSeq(t, 1, n - 9))
        /\ IsDigits(SubSeq(t, n - 7, n - 6))
        /\ IsDigits(SubSeq(t, n - 4, n - 3))
        /\ IsDigits(SubSeq(t, n - 1, n))
        /\ (n > 10 => t[1] # "0")
        /\ CharsToInt(SubSeq(t, n - 7, n - 6)) <= 59
        /\ CharsToInt(SubSeq(t, n - 4, n - 3)) <= 59

\* C23: for a time of t whole centiseconds format_time_ass yields H:MM:SS.cc
\* with H*360000 + MM*6000 + SS*100 + cc = t, MM and SS in 0..59, cc in
\* 0..99, two digits each and H unpadded; a time with a finer fraction
\* yields the centisecond below.
C23_FieldsSumToTime ==
    Returned("format_time_ass") =>
        /\ TimeLayout(ret.value)
        /\ TimeCs(ret.value) = CentisecondsOf(call.n, call.den)

(***************************************************************************)
(* The document as the lines of its text.  A line is a section line        *)
(* "[Name]", a Style line, a Dialogue line, or any other line.  A brace    *)
(* block of tags holds no line break and stands in the text as "{}".       *)
(***************************************************************************)
SectionLine(name) == [kind |-> "section", name |-> name]

OtherLine == [kind |-> "other"]

\* generate_ass_header lines 76-92: the lines of the template
header_lines(header) ==
    <<SectionLine(header.sections[1])>>
    \o [k \in 1..7 |-> OtherLine]       \* Title .. PlayResY
    \o <<OtherLine>>                    \* the blank line
    \o <<SectionLine(header.sections[2]), [kind |-> "format", of |-> header.sections[2]]>>
    \o [k \in 1..Len(header.styles) |-> [kind |-> "style", name |-> header.styles[k].name]]
    \o <<OtherLine>>
    \o <<SectionLine(header.sections[3]), [kind |-> "format", of |-> header.sections[3]]>>

\* str.split(sep) for a one-character sep
RECURSIVE SplitOnLoop(_, _, _, _)
SplitOnLoop(s, sep, cur, acc) ==
    IF s = << >> THEN Append(acc, cur)
    ELSE IF Head(s) = sep THEN SplitOnLoop(Tail(s), sep, << >>, Append(acc, cur))
    ELSE SplitOnLoop(Tail(s), sep, Append(cur, Head(s)), acc)

SplitOn(s, sep) == SplitOnLoop(s, sep, << >>, << >>)

StartsWith(s, prefix) == Len(s) >= Len(prefix) /\ SubSeq(s, 1, Len(prefix)) = prefix

ScriptInfoText == <<"[", "S", "c", "r", "i", "p", "t", " ", "I", "n", "f", "o", "]">>

StylesText == <<"[", "V", "4", "+", " ", "S", "t", "y", "l", "e", "s", "]">>

EventsText == <<"[", "E", "v", "e", "n", "t", "s", "]">>

\* what a line of text that a subtitle's text starts is, in the document
LineOfText(cs) ==
    IF cs = ScriptInfoText THEN SectionLine("Script Info")
    ELSE IF cs = StylesText THEN SectionLine("V4+ Styles")
    ELSE IF cs = EventsText THEN SectionLine("Events")
    ELSE IF StartsWith(cs, <<"S", "t", "y", "l", "e", ":">>) THEN [kind |-> "style", name |-> "text"]
    ELSE IF StartsWith(cs, <<"D", "i", "a", "l", "o", "g", "u", "e", ":">>)
         THEN [kind |-> "dialogue", text |-> TRUE]
    ELSE OtherLine

\* the text field of a Dialogue line: lines 116, 180 and 242
RECURSIVE PartsText(_)
PartsText(parts) ==
    IF parts = << >> THEN << >>
    ELSE LET p == Head(parts)
             t == (IF p.tags = << >> THEN << >> ELSE <<"{}">>) \o p.word
         IN  IF Len(parts) = 1 THEN t ELSE t \o <<" ">> \o PartsText(Tail(parts))

\* the lines one Dialogue line of the renderer makes in the text
event_lines(event) ==
    LET pieces == SplitOn(PartsText(event.parts), "\n")
    IN  <<[kind |-> "dialogue", text |-> FALSE]>>
        \o [k \in 1..(Len(pieces) - 1) |-> LineOfText(pieces[k + 1])]

RECURSIVE events_lines(_)
events_lines(events) ==
    IF events = << >> THEN << >> ELSE event_lines(Head(events)) \o events_lines(Tail(events))

\* render_segments lines 256-266: the header followed by the events
document_lines(doc) == header_lines(doc.header) \o events_lines(doc.events)

(***************************************************************************)
(* render_segments on subtitles as the editor's text box gives them: the   *)
(* text may hold line breaks (gui.py lines 934, 981).                      *)
(***************************************************************************)
DocumentThemes ==
    {[SubtitleThemeConfig EXCEPT !.background.style = st[1], !.highlight.enabled = st[2],
                                 !.highlight.transition = tr,
                                 !.layout.max_words_per_line = MaxWordsPerLine] :
        st \in Strategies \cup {<<"per_word", FALSE>>}, tr \in {"instant", "fade"}}

DocumentSegments ==
    {EstimatedSegment, TimedSegment, UntimedSegment,
     \* two lines of text
     [start |-> T(0), end |-> T(14), text |-> <<"a", "\n", "b">>, words |-> << >>],
     \* a second line that reads [Events]
     [start |-> T(0), end |-> T(14), text |-> <<"a", "\n">> \o EventsText],
     [start |-> T(14), end |-> T(20), text |-> <<"a", "\n">> \o EventsText, words |-> << >>]}

InitDocument ==
    /\ theme \in DocumentThemes
    /\ video_size = <<1080, 1920>>
    /\ segments \in Seqs(DocumentSegments, MaxSegments)
    /\ pc = "header"
    /\ i = 1
    /\ ass_content = None
    /\ result = None
    /\ calls = << >>
    /\ origin = << >>
    /\ output_file = Untouched
    /\ history = << >>
    /\ NoEditor
    /\ NoCall

NextDocument ==
    \/ GenerateAssHeader
    \/ RenderSegmentPerWordBackground
    \/ RenderSegmentKaraoke
    \/ RenderSegmentSimple
    \/ ReturnContent

SpecDocument == InitDocument /\ [][NextDocument]_vars

IsSection(l) == l.kind = "section"

IsStyle(l) == l.kind = "style"

NamesOf(ls) == [k \in 1..Len(ls) |-> ls[k].name]

\* C22: the document has the sections [Script Info], [V4+ Styles], [Events]
\* in that order, each exactly once; exactly two Style lines, Default and
\* Highlight in that order; every Dialogue line after the Format line of
\* [Events].
C22_DocumentStructure ==
    pc = "done" =>
        LET L == document_lines(result)
        IN  /\ NamesOf(SelectSeq(L, IsSection)) = <<"Script Info", "V4+ Styles", "Events">>
            /\ NamesOf(SelectSeq(L, IsStyle)) = <<"Default", "Highlight">>
            /\ \A k \in 1..Len(L) :
                  L[k].kind = "dialogue" =>
                      \E f \in 1..(k - 1) : L[f] = [kind |-> "format", of |-> "Events"]

(***************************************************************************)
(* generate_ass_header for the layouts: position, margin_y and custom_y,   *)
(* a percentage of the canvas height given as the decimal n/den.           *)
(***************************************************************************)
NoCustomY == [set |-> FALSE]

CustomYChoices ==
    {NoCustomY}
    \cup {[set |-> TRUE, neg |-> FALSE, n |-> c[1], den |-> c[2]] :
             c \in {<<0, 1>>, <<50, 1>>, <<100, 1>>, <<150, 1>>, <<375, 10>>, <<323, 10>>,
                    <<3333, 100>>}}
    \cup {[set |-> TRUE, neg |-> TRUE, n |-> 1, den |-> 1],
          [set |-> TRUE, neg |-> TRUE, n |-> 323, den |-> 10]}

\* the value of layout.custom_y: None, or the float of the decimal
CustomYOf(c) ==
    IF ~c.set THEN << >>
    ELSE IF c.neg THEN <<DNeg(Dec(c.n, c.den))>>
    ELSE <<Dec(c.n, c.den)>>

LayoutPositions == {"top", "center", "bottom", "custom", "middle"}

HeaderThemes ==
    {[SubtitleThemeConfig EXCEPT !.layout.position = p, !.layout.margin_y = my,
                                 !.layout.custom_y = CustomYOf(c)] :
        p \in LayoutPositions, my \in {0, 37, 100}, c \in CustomYChoices}

CanvasSizes == {<<1080, 1920>>, <<1000, 1000>>, <<540, 961>>}

InitHeader ==
    /\ theme \in HeaderThemes
    /\ video_size \in CanvasSizes
    /\ segments = << >>
    /\ pc = "header"
    /\ i = 1
    /\ ass_content = None
    /\ result = None
    /\ calls = << >>
    /\ origin = << >>
    /\ output_file = Untouched
    /\ history = << >>
    /\ NoEditor
    /\ NoCall

NextHeader ==
    \/ GenerateAssHeader
    \/ ReturnContent

SpecHeader == InitHeader /\ [][NextHeader]_vars

\* the choice the theme's custom_y was made from
ChoiceOf(t) == CHOOSE c \in CustomYChoices : CustomYOf(c) = t.layout.custom_y

\* floor(height * custom_y / 100), in exact arithmetic
ExactFloor(height, c) ==
    IF c.neg THEN (-(height * c.n)) \div (c.den * 100) ELSE (height * c.n) \div (c.den * 100)

\* height * custom_y / 100 truncated toward zero, in exact arithmetic
ExactTrunc(height, c) ==
    IF c.neg THEN -((height * c.n) \div (c.den * 100)) ELSE (height * c.n) \div (c.den * 100)

HeaderWritten == pc \in {"segments", "done"} /\ theme \in HeaderThemes /\ segments = << >>

BothMargins(v) ==
    /\ ass_content.header.styles[1].margin_v = v
    /\ ass_content.header.styles[2].margin_v = v

\* C29: MarginV of both Style lines is margin_y at position "top",
\* (height // 2) - 100 at "center", and at every other position
\* floor(height * custom_y / 100) when custom_y is set, else margin_y.
C29_MarginV ==
    HeaderWritten =>
        LET c == ChoiceOf(theme)
            h == video_size[2]
        IN  BothMargins(IF theme.layout.position = "top" THEN theme.layout.margin_y
                        ELSE IF theme.layout.position = "center" THEN (h \div 2) - 100
                        ELSE IF c.set THEN ExactFloor(h, c)
                        ELSE theme.layout.margin_y)

\* C29 amended: as C29, but with custom_y set the value is
\* height * custom_y / 100 truncated toward zero, exactly so when custom_y
\* is a whole number, and for a fractional custom_y that or the number one
\* closer to zero (the product is a binary float).
C29_MarginVTruncated ==
    HeaderWritten =>
        LET c == ChoiceOf(theme)
            h == video_size[2]
            m == ass_content.header.styles[1].margin_v
        IN  IF theme.layout.position = "top" THEN BothMargins(theme.layout.margin_y)
            ELSE IF theme.layout.position = "center" THEN BothMargins((h \div 2) - 100)
            ELSE IF ~c.set THEN BothMargins(theme.layout.margin_y)
            ELSE /\ BothMargins(m)
                 /\ c.den = 1 => m = ExactTrunc(h, c)
                 /\ \/ m = ExactTrunc(h, c)
                    \/ /\ ExactTrunc(h, c) > 0
                       /\ m = ExactTrunc(h, c) - 1
                       /\ (h * c.n) % (c.den * 100) = 0
                    \/ /\ ExactTrunc(h, c) < 0
                       /\ m = ExactTrunc(h, c) + 1
                       /\ (h * c.n) % (c.den * 100) = 0

C29_Witness ==
    /\ HeaderWritten
    /\ theme.layout.position = "custom"
    /\ theme.layout.margin_y = 37
    /\ ChoiceOf(theme) = [set |-> TRUE, neg |-> TRUE, n |-> 1, den |-> 1]
    /\ video_size[2] = 961
    /\ BothMargins(-9)

\* the events the per-word method wrote itself
PerWordEvents ==
    {k \in 1..Len(ass_content.events) : origin[k].method = "render_segment_per_word_background"}

\* C27: each event of the per-word-background method has one brace block
\* before the first word exactly when animation.entry or animation.exit is
\* not "none", holding one fade that covers the configured entry and exit
\* and depends on animation.duration only.
C27_SingleFadePreamble ==
    InDocument =>
        \A k \in PerWordEvents :
            LET d == theme.animation.duration
                fade_in  == IF theme.animation.entry # "none" THEN d ELSE 0
                fade_out == IF theme.animation.exit # "none" THEN d ELSE 0
            IN  ass_content.events[k].preamble =
                    IF fade_in = 0 /\ fade_out = 0 THEN << >>
                    ELSE <<Tag("fad", <<fade_in, fade_out>>)>>

\* the events of segment j, in document order
EventsOf(j) ==
    LET ofj(k) == origin[k].segment = j
    IN  SelectSeq([k \in 1..Len(ass_content.events) |-> k], ofj)

\* the words of the events ks, in order
RECURSIVE WordsOfEvents(_)
WordsOfEvents(ks) ==
    IF ks = << >> THEN << >>
    ELSE LET parts == ass_content.events[Head(ks)].parts
         IN  [p \in 1..Len(parts) |-> parts[p].word] \o WordsOfEvents(Tail(ks))

ChunkOf(k) ==
    chunk_words(calculate_word_timings(segments[origin[k].segment]),
                theme.layout.max_words_per_line)[origin[k].chunk]

\* start <= end for each word and end[i] <= start[i+1]
NonDecreasing(chunk) ==
    /\ \A w \in 1..Len(chunk) : FLeq(chunk[w].start, chunk[w].end)
    /\ \A w \in 1..(Len(chunk) - 1) : FLeq(chunk[w].end, chunk[w + 1].start)

\* the events whose words carry colour tags
TaggedEvents ==
    {k \in 1..Len(ass_content.events) :
        /\ origin[k].method \in WordLevel
        /\ ass_content.events[k].parts[1].tags # << >>}

\* word_start_rel and word_end_rel as an event's colour tags hold them
StartRel(part) == part.tags[2].args[1]

EndRel(part) == part.tags[3].args[1]

\* C28: in every karaoke and per-word-background event of a chunk whose
\* word timings are non-decreasing, 0 <= word_start_rel <= word_end_rel <=
\* the event's duration in ms for every word, the first word's
\* word_start_rel is 0, and word_start_rel is non-decreasing in word order.
C28_RelativeTimesOrdered ==
    Rendering =>
        \A k \in TaggedEvents :
            NonDecreasing(ChunkOf(k)) =>
                LET parts == ass_content.events[k].parts
                    chunk == ChunkOf(k)
                    duration_ms == RelMs(chunk[1].start, chunk[Len(chunk)].end)
                IN  /\ \A p \in 1..Len(parts) :
                          /\ 0 <= StartRel(parts[p])
                          /\ StartRel(parts[p]) <= EndRel(parts[p])
                          /\ EndRel(parts[p]) <= duration_ms
                    /\ StartRel(parts[1]) = 0
                    /\ \A p \in 1..(Len(parts) - 1) : StartRel(parts[p]) <= StartRel(parts[p + 1])

\* a two-word event whose second word starts after the first
C28_Witness ==
    /\ pc = "done"
    /\ \E k \in TaggedEvents :
          /\ NonDecreasing(ChunkOf(k))
          /\ Len(ass_content.events[k].parts) = 2
          /\ StartRel(ass_content.events[k].parts[2]) > 0
          /\ EndRel(ass_content.events[k].parts[2]) > StartRel(ass_content.events[k].parts[2])

\* the events a word-level method wrote itself
WordLevelEvents == {k \in 1..Len(ass_content.events) : origin[k].method \in WordLevel}

\* the width of the colour transitions of a method
WindowOf(method) == IF method = "render_segment_karaoke" THEN 0 ELSE 50

AllWorkersEnded ==
    /\ workers # << >>
    /\ \A w \in 1..Len(workers) : workers[w].pc \in {"finished", "error"}

\* the most recent of the workers whose render ended with a preview
LatestPreview ==
    LET done == {w \in 1..Len(workers) : workers[w].pc = "finished"}
    IN  IF done = {} THEN 0 ELSE CHOOSE w \in done : \A v \in done : v <= w

\* C30: once all the workers have finished, the preview the main window
\* shows is the one of the most recent request: the completion of an older
\* worker has not replaced the preview of a newer one.
C30_LatestPreviewShown ==
    AllWorkersEnded => preview = LatestPreview


(***************************************************************************)
(* theme_config.py: load_theme.  The file system is a function from the    *)
(* paths that exist to what is there: a directory, a file whose text       *)
(* yaml.safe_load parses to data, or a file whose text it rejects.         *)
(***************************************************************************)
YAMLError == [raised |-> "YAMLError"]

IsADirectoryError == [raised |-> "IsADirectoryError"]

Directory == [kind |-> "directory"]

InvalidFile == [kind |-> "file", parses |-> FALSE]

YamlFile(data) == [kind |-> "file", parses |-> TRUE, data |-> data]

\* os.path.join(themes_dir, f"{theme_name}.yaml"), line 278
theme_file(theme_name) ==
    <<"t", "h", "e", "m", "e", "s", "/">> \o theme_name \o <<".", "y", "a", "m", "l">>

\* SubtitleThemeConfig.from_yaml: open, yaml.safe_load, from_dict
from_yaml(fs, path) ==
    IF fs[path].kind = "directory" THEN IsADirectoryError
    ELSE IF ~fs[path].parses THEN YAMLError
    ELSE from_dict(fs[path].data)

\* get_theme_path: <<the path of the built-in theme>>, or << >> for None
get_theme_path(fs, theme_name) ==
    IF theme_file(theme_name) \in DOMAIN fs THEN <<theme_file(theme_name)>> ELSE << >>

\* load_theme: what it returns or raises, and what it prints
load_theme(fs, theme_name_or_path) ==
    IF theme_name_or_path \in DOMAIN fs
    THEN [value |-> from_yaml(fs, theme_name_or_path), printed |-> << >>]
    ELSE LET theme_path == get_theme_path(fs, theme_name_or_path)
         IN  IF theme_path # << >>
             THEN [value |-> from_yaml(fs, theme_path[1]), printed |-> << >>]
             ELSE [value |-> SubtitleThemeConfig, printed |-> <<"Warning">>]

\* the references: a path, a theme name, and a name no theme has
UserPath == <<"m", "y", ".", "y", "a", "m", "l">>

ThemeName == <<"n", "e", "o", "n">>

References == {UserPath, ThemeName, <<"x">>}

\* what can be at a path: nothing (Untouched), a directory, a file that is
\* not YAML, or a file holding one of the documents
Entries == {Untouched, Directory, InvalidFile} \cup {YamlFile(d) : d \in Documents}

\* the file at the user's path is any entry, the built-in theme any entry
\* but one document, and there may be something named as the theme in the
\* working directory
FileSystems ==
    {[p \in {q \in {UserPath, ThemeName, theme_file(ThemeName)} :
                IF q = UserPath THEN u # Untouched
                ELSE IF q = ThemeName THEN n # Untouched
                ELSE b # Untouched}
        |-> IF p = UserPath THEN u ELSE IF p = ThemeName THEN n ELSE b] :
      u \in Entries,
      n \in {Untouched, Directory},
      b \in {Untouched, Directory, InvalidFile, YamlFile(to_dict(CustomTheme)),
             YamlFile([font |-> NoneValue])}}

InitLoadTheme ==
    /\ NoRender
    /\ call \in {[fn |-> "load_theme", theme_name_or_path |-> r, fs |-> fs] :
                   r \in References, fs \in FileSystems}
    /\ ret = [done |-> FALSE]

CallLoadTheme ==
    /\ call.fn = "load_theme"
    /\ ~ret.done
    /\ LET out == load_theme(call.fs, call.theme_name_or_path)
       IN  ret' = [done |-> TRUE, value |-> out.value, printed |-> out.printed]
    /\ UNCHANGED <<render_vars, call>>

SpecLoadTheme == InitLoadTheme /\ [][CallLoadTheme]_vars

\* the file the reference names: the path itself when it exists, else the
\* built-in theme of that name, else Untouched
ResolvedEntry ==
    IF call.theme_name_or_path \in DOMAIN call.fs THEN call.fs[call.theme_name_or_path]
    ELSE IF theme_file(call.theme_name_or_path) \in DOMAIN call.fs
         THEN call.fs[theme_file(call.theme_name_or_path)]
         ELSE Untouched

\* the reference resolves to a theme: the file it names holds a document
\* from_dict accepts
Resolves ==
    /\ ResolvedEntry # Untouched
    /\ ResolvedEntry.kind = "file"
    /\ ResolvedEntry.parses
    /\ ~Raised(from_dict(ResolvedEntry.data))

\* C21: load_theme never raises and always returns a theme; when the
\* reference does not resolve to a theme it prints a warning and returns
\* the all-defaults theme.
C21_LoadThemeNeverRaises ==
    Returned("load_theme") =>
        /\ ~Raised(ret.value)
        /\ DOMAIN ret.value = DOMAIN SubtitleThemeConfig
        /\ ~Resolves => ret.printed # << >> /\ ret.value = SubtitleThemeConfig

====
